---- MODULE Spec2Model ----
(***************************************************************************)
(* A model of the openraft consensus engine: Engine (engine_impl.rs), the  *)
(* MembershipState it owns (membership_state.rs) and the RaftState queries *)
(* that raft_state_test.rs pins down.  Handlers whose code is not part of  *)
(* the excerpt (VoteHandler, FollowingHandler, LeaderHandler, ...) follow  *)
(* the design document; the model map marks them.                          *)
(***************************************************************************)
EXTENDS Integers, Sequences, FiniteSets, TLC

\* ------------------------------------------------------------------ bounds

\* Greatest term a vote or a log id of the model carries.
MaxTerm == 2
\* Greatest log index of the model (the log holds indexes 0..MaxIndex).
MaxIndex == 1
\* Greatest reading of the monotonic clock.
MaxNow == 2
\* Greatest number of entries one append-entries request carries.
MaxEntries == 1
\* config.timer_config.leader_lease, in clock ticks.
LeaderLease == 1

MaxCmIndex == 3

\* ------------------------------------------------------------ data model

Nodes == {1, 2, 3}

\* Option<LogId>: None is the least element, as in Rust's Option ordering.
NoLogId == [term |-> -1, index |-> -1]

LogId(t, i) == [term |-> t, index |-> i]

\* LogId is ordered lexicographically by (term, index).
LogIdLT(a, b) == a.term < b.term \/ (a.term = b.term /\ a.index < b.index)

LogIdLE(a, b) == a = b \/ LogIdLT(a, b)

LogIdMin(a, b) == IF LogIdLE(a, b) THEN a ELSE b

LogIdMax(a, b) == IF LogIdLE(a, b) THEN b ELSE a

\* LogIdOptionExt::next_index: 0 for None, index + 1 otherwise.
NextIndex(l) == l.index + 1

\* Membership: the list of joint voter sets; <<>> is Membership::default().
NoMembership == << >>

Memberships == { <<{1}>>, <<{1, 2, 3}>>, <<{2, 3}>>, <<{1, 2, 3}, {2, 3}>> }

\* n is a voter iff it is in every voter set of a non-empty configuration.
IsVoter(m, n) == Len(m) > 0 /\ \A i \in 1..Len(m) : n \in m[i]

\* A set of granting nodes is a quorum iff it is a majority of every voter set.
IsQuorum(m, granted) ==
    \A i \in 1..Len(m) : 2 * Cardinality(granted \cap m[i]) > Cardinality(m[i])

\* EffectiveMembership: (log id of the membership entry, membership).
EM(l, m) == [log_id |-> l, membership |-> m]

\* --------------------------------------------------------- MembershipState

MembershipStateNew(c, e) == [committed |-> c, effective |-> e]

\* Validate for MembershipState: the two less_equal! checks.
MsValidLogId(s) == LogIdLE(s.committed.log_id, s.effective.log_id)

MsValidIndex(s) == s.committed.log_id.index <= s.effective.log_id.index

\* MembershipState::commit
MsCommit(s, committed_log_id) ==
    IF LogIdLE(s.effective.log_id, committed_log_id)
    THEN [s EXCEPT !.committed = s.effective]
    ELSE s

\* MembershipState::update_committed: the state afterwards.
MsUpdateCommitted(s, c) ==
    LET s1 == IF c.log_id.index >= s.effective.log_id.index
              THEN [s EXCEPT !.effective = c] ELSE s
    IN  IF LogIdLT(s.committed.log_id, c.log_id)
        THEN [s1 EXCEPT !.committed = c] ELSE s1

\* MembershipState::update_committed: whether the effective membership changed.
MsUpdateCommittedChanged(s, c) ==
    /\ c.log_id.index >= s.effective.log_id.index
    /\ c.membership # s.effective.membership

\* The debug_assert_eq! of update_committed.
MsUpdateCommittedAssert(s, c) ==
    c.log_id = s.committed.log_id => c.membership = s.committed.membership

\* The two debug_assert!s of append.
MsAppendAssert(s, m) ==
    /\ LogIdLT(s.effective.log_id, m.log_id)
    /\ m.log_id.index > s.effective.log_id.index

\* MembershipState::append
MsAppend(s, m) == [committed |-> s.effective, effective |-> m]

\* The debug_assert! of truncate.
MsTruncateAssert(s, since) == since >= NextIndex(s.committed.log_id)

\* MembershipState::truncate: whether the effective membership is reverted.
MsTruncateReverts(s, since) ==
    s.effective.log_id # NoLogId /\ since <= s.effective.log_id.index

\* MembershipState::truncate: what it returns, the new effective membership
\* or None.
MsTruncateReturn(s, since) ==
    IF MsTruncateReverts(s, since) THEN s.committed ELSE EM(NoLogId, NoMembership)

MsTruncateStrict(s, since) ==
    IF s.effective.log_id # NoLogId /\ since < s.effective.log_id.index
    THEN [s EXCEPT !.effective = s.committed] ELSE s

\* MembershipState::truncate: the state afterwards.
MsTruncate(s, since) ==
    IF MsTruncateReverts(s, since) THEN [s EXCEPT !.effective = s.committed] ELSE s

\* ChangeMembers: a change of the voters, by the ids it names.
ChangeMembers(kind, ids) == [kind |-> kind, ids |-> ids]

\* ChangeMembers::apply_to: the voter ids the change asks for.
ApplyTo(changes, old) ==
    CASE changes.kind = "AddVoterIds"      -> old \cup changes.ids
      [] changes.kind = "RemoveVoters"     -> old \ changes.ids
      [] changes.kind = "ReplaceAllVoters" -> changes.ids

\* EffectiveMembership::contains: whether the membership has a node for the
\* id; a membership here has the nodes of its voters.
Contains(m, n) == \E i \in 1..Len(m) : n \in m[i]

\* Membership::next_safe: the goal alone when the membership already has it as
\* a config, else the joint of the last config and the goal.
NextSafe(m, goal) ==
    IF \E i \in 1..Len(m) : m[i] = goal THEN <<goal>> ELSE <<m[Len(m)], goal>>

\* Result<Membership, ChangeMembershipError>
MembershipOk(m) == [ok |-> TRUE, membership |-> m, err |-> ""]

MembershipErr(err) == [ok |-> FALSE, membership |-> NoMembership, err |-> err]

NextMembershipNoInProgress(s, changes) ==
    LET last          == s.effective.membership[Len(s.effective.membership)]
        new_voter_ids == ApplyTo(changes, last)
    IN  IF new_voter_ids = {} THEN MembershipErr("EmptyMembership")
        ELSE IF \E n \in new_voter_ids : ~Contains(s.effective.membership, n)
        THEN MembershipErr("LearnerNotFound")
        ELSE MembershipOk(NextSafe(s.effective.membership, new_voter_ids))

\* MembershipState::next_membership: the change is checked before the
\* membership in progress.
NextMembership(s, changes) ==
    LET last          == s.effective.membership[Len(s.effective.membership)]
        new_voter_ids == ApplyTo(changes, last)
    IN  IF new_voter_ids = {} THEN MembershipErr("EmptyMembership")
        ELSE IF \E n \in new_voter_ids : ~Contains(s.effective.membership, n)
        THEN MembershipErr("LearnerNotFound")
        ELSE IF s.committed.log_id # s.effective.log_id
        THEN MembershipErr("InProgress")
        ELSE MembershipOk(NextSafe(s.effective.membership, new_voter_ids))

\* -------------------------------------------------------------------- Vote

Vote(t, n, c) == [term |-> t, node |-> n, committed |-> c]

\* Vote::default(): term 0, node id 0, not committed.
ZeroVote == Vote(0, 0, FALSE)

\* Vote order: (term, committed flag, node id), lexicographic.
VoteLT(a, b) ==
    \/ a.term < b.term
    \/ a.term = b.term /\ ~a.committed /\ b.committed
    \/ a.term = b.term /\ a.committed = b.committed /\ a.node < b.node

VoteLE(a, b) == a = b \/ VoteLT(a, b)

VoteMax(a, b) == IF VoteLE(a, b) THEN b ELSE a

\* ForwardToLeader: the leader a request should go to and its node; empty
\* when no leader is known.
ForwardToLeaderNew(id, node) == [leader_id |-> id, leader_node |-> node]

ForwardToLeaderEmpty == ForwardToLeaderNew(0, 0)

\* The nodes of a membership of this model: one for every voter, the node of
\* an id being the id.
NodeMap(m) == [n \in UNION { m[i] : i \in 1..Len(m) } |-> n]

ForwardToLeaderAnyVote(vote, nodes) ==
    IF vote.node \in DOMAIN nodes
    THEN ForwardToLeaderNew(vote.node, nodes[vote.node])
    ELSE ForwardToLeaderEmpty

\* RaftState::forward_to_leader, of the vote and the nodes of the effective
\* membership: the voted-for node of a committed vote when the membership has
\* a node for it.
ForwardToLeader(vote, nodes) ==
    IF vote.committed /\ vote.node \in DOMAIN nodes
    THEN ForwardToLeaderNew(vote.node, nodes[vote.node])
    ELSE ForwardToLeaderEmpty

\* ------------------------------------------------------------ engine state

\* Option<Instant>::None for vote_last_modified.
NoTime == -1

NoLeader == [present |-> FALSE, vote |-> ZeroVote, progress |-> [n \in Nodes |-> NoLogId]]

NoCandidate ==
    [present |-> FALSE, vote |-> ZeroVote, last_log_id |-> NoLogId,
     granted |-> {}, quorum_set |-> NoMembership]

\* A log entry: its term and, for a membership entry, the membership.
Entry(t, m) == [term |-> t, m |-> m]

\* SnapshotMeta: the last log id a snapshot covers and the last membership
\* (an EffectiveMembership) in it.
SnapshotMeta(l, em) == [last_log_id |-> l, last_membership |-> em]

\* RaftState::default()
DefaultRaftState ==
    [vote |-> ZeroVote, log |-> << >>, purged |-> NoLogId, purge_upto |-> NoLogId,
     snapshot_meta |-> SnapshotMeta(NoLogId, EM(NoLogId, NoMembership)),
     committed |-> NoLogId,
     membership_state |-> MembershipStateNew(EM(NoLogId, NoMembership), EM(NoLogId, NoMembership)),
     server_state |-> "Learner",
     building_snapshot |-> FALSE]

EngineNewLastSeenZero(id, init_state) ==
    [id |-> id, vote |-> init_state.vote, vote_utime |-> NoTime,
     last_seen_vote |-> ZeroVote, log |-> init_state.log,
     purged |-> init_state.purged, purge_upto |-> init_state.purge_upto,
     snapshot_meta |-> init_state.snapshot_meta,
     committed |-> init_state.committed,
     membership_state |-> init_state.membership_state,
     server_state |-> init_state.server_state,
     building_snapshot |-> init_state.building_snapshot,
     seen_greater_log |-> FALSE, leader |-> NoLeader, candidate |-> NoCandidate,
     output |-> << >>, panic |-> ""]

\* Engine::new: last_seen_vote starts at the vote of the initial state.
EngineNew(id, init_state) ==
    [id |-> id, vote |-> init_state.vote, vote_utime |-> NoTime,
     last_seen_vote |-> init_state.vote, log |-> init_state.log,
     purged |-> init_state.purged, purge_upto |-> init_state.purge_upto,
     snapshot_meta |-> init_state.snapshot_meta,
     committed |-> init_state.committed,
     membership_state |-> init_state.membership_state,
     server_state |-> init_state.server_state,
     building_snapshot |-> init_state.building_snapshot,
     seen_greater_log |-> FALSE, leader |-> NoLeader, candidate |-> NoCandidate,
     output |-> << >>, panic |-> ""]

\* The log holds the entries after the last purged log id: e.log[k] is the
\* entry at index FirstIndex(e) + k - 1.
FirstIndex(e) == NextIndex(e.purged)

\* LogStateReader::last_log_id (raft_state_test: None for an empty list, the
\* last purged log id when nothing follows it).
LastLogId(e) ==
    IF Len(e.log) = 0 THEN e.purged
    ELSE LogId(e.log[Len(e.log)].term, FirstIndex(e) + Len(e.log) - 1)

\* LogStateReader::get_log_id: the log id at an index, None when absent; the
\* last purged log id is still known.
GetLogId(e, i) ==
    IF e.purged # NoLogId /\ i = e.purged.index THEN e.purged
    ELSE IF i >= FirstIndex(e) /\ i < FirstIndex(e) + Len(e.log)
         THEN LogId(e.log[i - FirstIndex(e) + 1].term, i)
         ELSE NoLogId

\* LogStateReader::has_log_id: every index up to committed counts as present.
HasLogId(e, l) ==
    \/ l.index < NextIndex(e.committed)
    \/ GetLogId(e, l.index) = l

\* RaftState::is_initialized
IsInitialized(e) == LastLogId(e) # NoLogId \/ e.vote # ZeroVote

\* RaftState::is_leader: the vote is this node's and committed.
IsLeader(e) == e.vote.node = e.id /\ e.vote.committed

\* RaftState::is_leading: the vote is this node's.
IsLeading(e) == e.vote.node = e.id

Push(e, c) == [e EXCEPT !.output = Append(@, c)]

Panic(e, what) == IF e.panic = "" THEN [e EXCEPT !.panic = what] ELSE e

\* Commands of the output queue.
CmdSaveVote(v) == [cmd |-> "SaveVote", vote |-> v]

CmdSendVote(v, l) == [cmd |-> "SendVote", vote |-> v, last_log_id |-> l]

CmdServerStateUpdate(s) == [cmd |-> "ServerStateUpdate", server_state |-> s]

CmdAppendLog(first, last) == [cmd |-> "AppendLog", first |-> first, last |-> last]

CmdTruncateLog(since) == [cmd |-> "TruncateLog", since |-> since]

CmdApply(prev, upto) == [cmd |-> "Apply", prev |-> prev, upto |-> upto]

CmdRebuildReplicationStreams == [cmd |-> "RebuildReplicationStreams"]

CmdReplicate(upto) == [cmd |-> "Replicate", upto |-> upto]

CmdInstallFullSnapshot(l) == [cmd |-> "InstallFullSnapshot", last_log_id |-> l]

CmdPurgeLog(upto) == [cmd |-> "PurgeLog", upto |-> upto]

CmdBuildSnapshot == [cmd |-> "BuildSnapshot"]

CmdRespond(when, ok, v) == [cmd |-> "Respond", when |-> when, ok |-> ok, vote |-> v]

\* ------------------------------------------------------ ServerStateHandler

\* RaftState::calc_server_state
CalcServerState(e) ==
    IF ~IsVoter(e.membership_state.effective.membership, e.id) THEN "Learner"
    ELSE IF IsLeader(e) THEN "Leader"
    ELSE IF IsLeading(e) THEN "Candidate"
    ELSE "Follower"

\* ServerStateHandler::update_server_state_if_changed
UpdateServerStateIfChanged(e) ==
    LET s == CalcServerState(e)
    IN  IF s = e.server_state THEN e
        ELSE Push([e EXCEPT !.server_state = s], CmdServerStateUpdate(s))

\* ------------------------------------------------------------- VoteHandler

\* VoteHandler::update_last_seen
UpdateLastSeen(e, v) == [e EXCEPT !.last_seen_vote = VoteMax(@, v)]

\* RaftState::new_leader: a Leader for the current vote, progress from the log.
NewLeader(e) ==
    [present |-> TRUE, vote |-> e.vote,
     progress |-> [n \in Nodes |-> IF n = e.id THEN LastLogId(e) ELSE NoLogId]]

\* VoteHandler::update_internal_server_state
UpdateInternalServerState(e) ==
    IF IsLeader(e)
    THEN LET l == IF e.leader.present /\ e.leader.vote.term = e.vote.term
                     /\ e.leader.vote.node = e.vote.node
                  THEN [e.leader EXCEPT !.vote = e.vote]
                  ELSE NewLeader(e)
         IN  UpdateServerStateIfChanged([e EXCEPT !.leader = l])
    ELSE IF IsLeading(e) THEN e
    ELSE UpdateServerStateIfChanged([e EXCEPT !.leader = NoLeader, !.candidate = NoCandidate])

\* VoteHandler::update_vote.  touch: whether an equal vote refreshes
\* vote_last_modified (the design leaves it open).
UpdateVoteOk(e, v) == VoteLE(e.vote, v)

UpdateVote(e, v, now, touch) ==
    IF ~UpdateVoteOk(e, v) THEN e
    ELSE LET e0 == UpdateLastSeen(e, v)
             e1 == IF VoteLT(e.vote, v)
                   THEN Push([e0 EXCEPT !.vote = v, !.vote_utime = now], CmdSaveVote(v))
                   ELSE IF touch THEN [e0 EXCEPT !.vote_utime = now] ELSE e0
         IN  UpdateInternalServerState(e1)

\* -------------------------------------------------------- FollowingHandler

\* An entry as a request carries it: its log id and, if any, its membership.
InEntry(l, m) == [log_id |-> l, m |-> m]

\* The entries of a request that the local log does not hold yet: those from
\* the first one whose log id the local log does not have.
RECURSIVE FirstConflicting(_, _, _)
FirstConflicting(e, entries, k) ==
    IF k > Len(entries) THEN k
    ELSE IF HasLogId(e, entries[k].log_id)
         THEN FirstConflicting(e, entries, k + 1)
         ELSE k

\* FollowingHandler::truncate_logs: drop the log from index since on and revert
\* the effective membership if it lies in the dropped part.
TruncateLogs(e, since) ==
    IF ~MsTruncateAssert(e.membership_state, since)
    THEN Panic(e, "truncate: committed log should never be truncated")
    ELSE Push([e EXCEPT !.log = SubSeq(@, 1, since - FirstIndex(e)),
                        !.membership_state = MsTruncate(@, since)],
              CmdTruncateLog(since))

\* One entry appended: log ids updated, a membership entry becomes effective.
RECURSIVE AppendAll(_, _, _)
AppendAll(e, entries, k) ==
    IF k > Len(entries) \/ e.panic # "" THEN e
    ELSE LET x  == entries[k]
             e1 == [e EXCEPT !.log = Append(@, Entry(x.log_id.term, x.m))]
             e2 == IF x.m = NoMembership THEN e1
                   ELSE IF ~MsAppendAssert(e.membership_state, EM(x.log_id, x.m))
                        THEN Panic(e1, "append: new membership has to have a greater log_id")
                        ELSE [e1 EXCEPT !.membership_state = MsAppend(@, EM(x.log_id, x.m))]
         IN  AppendAll(e2, entries, k + 1)

\* FollowingHandler::do_append_entries(entries, since): the entries from
\* position since on are appended and one AppendLog command is emitted.
DoAppendEntries(e, entries, since) ==
    IF since >= Len(entries) THEN e
    ELSE Push(AppendAll(e, entries, since + 1),
              CmdAppendLog(entries[since + 1].log_id, entries[Len(entries)].log_id))

\* FollowingHandler::ensure_log_consecutive
EnsureLogConsecutive(e, prev_log_id) == prev_log_id = NoLogId \/ HasLogId(e, prev_log_id)

\* FollowingHandler::append_entries
FhAppendEntries(e, entries) ==
    LET k == FirstConflicting(e, entries, 1)
        e1 == IF k <= Len(entries) /\ entries[k].log_id.index <= LastLogId(e).index
              THEN TruncateLogs(e, entries[k].log_id.index) ELSE e
    IN  IF e1.panic # "" THEN e1 ELSE DoAppendEntries(e1, entries, k - 1)

\* FollowingHandler::commit_entries
CommitEntries(e, leader_committed) ==
    LET c == LogIdMin(leader_committed, LastLogId(e))
    IN  IF ~LogIdLT(e.committed, c) THEN e
        ELSE UpdateServerStateIfChanged(
                Push([e EXCEPT !.committed = c,
                               !.membership_state = MsCommit(@, c)],
                     CmdApply(e.committed, c)))

\* SnapshotHandler::update_snapshot: whether meta is newer than the current one.
UpdateSnapshotOk(e, meta) == LogIdLT(e.snapshot_meta.last_log_id, meta.last_log_id)

\* LogHandler::purge_log: drop the log up to purge_upto, emit PurgeLog.
PurgeLog(e) ==
    IF ~LogIdLT(e.purged, e.purge_upto) THEN e
    ELSE LET upto == e.purge_upto
             keep == IF upto.index >= LastLogId(e).index THEN << >>
                     ELSE SubSeq(e.log, upto.index - FirstIndex(e) + 2, Len(e.log))
         IN  Push([e EXCEPT !.log = keep, !.purged = upto], CmdPurgeLog(upto))

\* SnapshotHandler::trigger_snapshot: ask the runtime for a snapshot unless one
\* is being built.
TriggerSnapshot(e) ==
    IF e.building_snapshot THEN e
    ELSE Push([e EXCEPT !.building_snapshot = TRUE], CmdBuildSnapshot)

\* SnapshotHandler::update_snapshot: keep the snapshot meta with the greatest
\* last log id.
UpdateSnapshot(e, meta) ==
    IF UpdateSnapshotOk(e, meta) THEN [e EXCEPT !.snapshot_meta = meta] ELSE e

\* Config::max_in_snapshot_log_to_keep and Config::purge_batch_size
MaxInSnapshotLogToKeep == 0

PurgeBatchSize == 1

\* LogHandler::schedule_policy_based_purge: keep MaxInSnapshotLogToKeep entries
\* of the snapshot, purge in batches, never past the snapshot.
SchedulePolicyBasedPurge(e) ==
    LET purge_end == IF NextIndex(e.snapshot_meta.last_log_id) >= MaxInSnapshotLogToKeep
                     THEN NextIndex(e.snapshot_meta.last_log_id) - MaxInSnapshotLogToKeep
                     ELSE 0
    IN  IF NextIndex(e.purged) + PurgeBatchSize > purge_end THEN e
        ELSE IF purge_end - 1 = e.snapshot_meta.last_log_id.index
             THEN [e EXCEPT !.purge_upto = LogIdMax(@, e.snapshot_meta.last_log_id)]
             ELSE [e EXCEPT !.purge_upto = LogIdMax(@, GetLogId(e, purge_end - 1))]

\* ReplicationHandler::try_purge_log: a leader purges no further than the
\* least matching log id of its peers.
ReplicationTryPurgeLog(e) ==
    LET matching == { e.leader.progress[n] : n \in Nodes }
        least    == CHOOSE l \in matching : \A m \in matching : LogIdLE(l, m)
        upto     == LogIdMin(e.purge_upto, least)
    IN  IF ~LogIdLT(e.purged, upto) THEN e
        ELSE LET keep == IF upto.index >= LastLogId(e).index THEN << >>
                         ELSE SubSeq(e.log, upto.index - FirstIndex(e) + 2, Len(e.log))
             IN  Push([e EXCEPT !.log = keep, !.purged = upto], CmdPurgeLog(upto))

\* Engine::try_purge_log
TryPurgeLog(e) ==
    IF e.leader.present THEN ReplicationTryPurgeLog(e) ELSE PurgeLog(e)

FinishBuildingSnapshotPurgesAnyway(e, meta) ==
    TryPurgeLog(SchedulePolicyBasedPurge(
        UpdateSnapshot([e EXCEPT !.building_snapshot = FALSE], meta)))

\* Engine::finish_building_snapshot
FinishBuildingSnapshot(e, meta) ==
    LET e1 == [e EXCEPT !.building_snapshot = FALSE]
    IN  IF ~UpdateSnapshotOk(e1, meta) THEN e1
        ELSE TryPurgeLog(SchedulePolicyBasedPurge(UpdateSnapshot(e1, meta)))

\* LogHandler::update_purge_upto: purge_upto never goes back.
UpdatePurgeUpto(e, log_id) == [e EXCEPT !.purge_upto = LogIdMax(@, log_id)]

TriggerPurgeLogUncapped(e, index) ==
    LET log_id == GetLogId(e, index)
    IN  IF e.snapshot_meta.last_log_id = NoLogId THEN e
        ELSE IF index < NextIndex(e.purge_upto) THEN e
        ELSE IF log_id = NoLogId THEN Panic(e, "trigger_purge_log: unwrap on None")
        ELSE TryPurgeLog(UpdatePurgeUpto(e, log_id))

\* Engine::trigger_purge_log: the scheduled position is compared with the
\* index as given, the index is capped at the snapshot afterwards.
TriggerPurgeLog(e, index) ==
    LET snapshot_last_log_id == e.snapshot_meta.last_log_id
    IN  IF snapshot_last_log_id = NoLogId THEN e
        ELSE IF index < NextIndex(e.purge_upto) THEN e
        ELSE LET i      == IF index > snapshot_last_log_id.index
                           THEN snapshot_last_log_id.index ELSE index
                 log_id == GetLogId(e, i)
             IN  IF log_id = NoLogId THEN Panic(e, "trigger_purge_log: unwrap on None")
                 ELSE TryPurgeLog(UpdatePurgeUpto(e, log_id))

\* FollowingHandler::install_full_snapshot: whether the snapshot is installed.
\* A snapshot smaller than the committed log id is not installed (the note on
\* Engine::finish_building_snapshot), nor one that is not newer than the
\* current snapshot.
InstallFullSnapshotOk(e, meta) ==
    ~LogIdLT(meta.last_log_id, e.committed) /\ UpdateSnapshotOk(e, meta)

\* FollowingHandler::install_full_snapshot: the engine afterwards.
InstallFullSnapshot(e, meta) ==
    IF ~InstallFullSnapshotOk(e, meta) THEN e
    ELSE LET l  == meta.last_log_id
             local == GetLogId(e, l.index)
             \* local entries that disagree with the snapshot go with it: the
             \* log never ends below the committed log id
             e0 == IF local # NoLogId /\ local # l THEN TruncateLogs(e, l.index) ELSE e
             e1 == [e0 EXCEPT !.snapshot_meta = meta,
                             !.committed = LogIdMax(@, l),
                             !.membership_state = MsUpdateCommitted(@, meta.last_membership),
                             !.purge_upto = l]
         IN  PurgeLog(Push(e1, CmdInstallFullSnapshot(l)))

\* FollowingHandler::install_full_snapshot: the condition it returns, None
\* when the snapshot is not installed.
InstallFullSnapshotCond(e, meta) ==
    IF InstallFullSnapshotOk(e, meta) THEN meta.last_log_id ELSE NoLogId

\* Engine::following_handler: the debug_assert! that no LeaderState exists.
FollowingHandlerAssert(e) == ~e.leader.present

\* ----------------------------------------------------------- LeaderHandler

\* Engine::leader_handler: Ok iff a LeaderState exists and its vote is committed.
LeaderHandlerOk(e) == e.leader.present /\ e.leader.vote.committed

\* Engine::leader_handler: the ForwardToLeader error it returns when there is
\* no handler.
LeaderHandlerErr(e) ==
    ForwardToLeader(e.vote, NodeMap(e.membership_state.effective.membership))

GetLeaderHandlerOrRejectAnyLeader(e, tx) ==
    IF e.leader.present
    THEN [handler |-> TRUE, tx |-> tx, sent |-> << >>, engine |-> e]
    ELSE [handler |-> FALSE, tx |-> FALSE,
          sent |-> IF tx THEN <<LeaderHandlerErr(e)>> ELSE << >>, engine |-> e]

\* Engine::get_leader_handler_or_reject: whether a handler is returned, the tx
\* returned with it, what is sent through tx (tx: whether there is one), and
\* the engine, which the call does not change.
GetLeaderHandlerOrReject(e, tx) ==
    IF LeaderHandlerOk(e)
    THEN [handler |-> TRUE, tx |-> tx, sent |-> << >>, engine |-> e]
    ELSE [handler |-> FALSE, tx |-> FALSE,
          sent |-> IF tx THEN <<LeaderHandlerErr(e)>> ELSE << >>, engine |-> e]

\* LeaderHandler::leader_append_entries with one blank entry.
LeaderAppendBlank(e) ==
    LET l  == LogId(e.vote.term, NextIndex(LastLogId(e)))
        e1 == [e EXCEPT !.log = Append(@, Entry(l.term, NoMembership)),
                        !.leader.progress[e.id] = l]
    IN  Push(Push(e1, CmdAppendLog(l, l)), CmdReplicate(l))

\* LeaderHandler::leader_append_entries with one membership entry: the log id
\* is of the leader's term, the membership becomes the effective one.
LeaderAppendMembership(e, m) ==
    LET l  == LogId(e.vote.term, NextIndex(LastLogId(e)))
        e1 == [e EXCEPT !.log = Append(@, Entry(l.term, m)),
                        !.leader.progress[e.id] = l,
                        !.membership_state = MsAppend(@, EM(l, m))]
    IN  Push(Push(e1, CmdAppendLog(l, l)), CmdReplicate(l))

\* ------------------------------------------------------ ReplicationHandler

\* The log ids of the leader's own term that a quorum of every voter set has
\* replicated, given the matching log id of every node.
QuorumMatched(e, progress) ==
    { l \in { progress[n] : n \in Nodes } :
        /\ l # NoLogId
        /\ l.term = e.vote.term
        /\ IsQuorum(e.membership_state.effective.membership,
                    { n \in Nodes : l.index <= progress[n].index }) }

\* ReplicationHandler::update_matching: a peer has replicated up to l; the
\* committed log id advances to the greatest log id a quorum has matched.
UpdateMatching(e, target, l) ==
    LET p  == [e.leader.progress EXCEPT ![target] = LogIdMax(@, l)]
        e1 == [e EXCEPT !.leader.progress = p]
        q  == QuorumMatched(e1, p)
    IN  IF q = {} THEN e1
        ELSE LET c == CHOOSE x \in q : \A y \in q : LogIdLE(y, x)
             IN  IF ~LogIdLT(e1.committed, c) THEN e1
                 ELSE Push([e1 EXCEPT !.committed = c,
                                      !.membership_state = MsCommit(@, c)],
                           CmdApply(e1.committed, c))

\* ------------------------------------------------------------------ Engine

\* Candidate::new: nobody has granted yet.
CandidateNew(v, l, qs) ==
    [present |-> TRUE, vote |-> v, last_log_id |-> l, granted |-> {}, quorum_set |-> qs]

\* Engine::new_candidate
NewCandidate(e, v) ==
    [e EXCEPT !.candidate = CandidateNew(v, LastLogId(e), e.membership_state.effective.membership)]

\* Engine::elect
ElectSendVoteFirst(e, now) ==
    IF ~VoteLE(e.vote, e.last_seen_vote) THEN Panic(e, "elect: expect last_seen_vote >= state.vote")
    ELSE LET new_vote == Vote(e.last_seen_vote.term + 1, e.id, FALSE)
             e1 == NewCandidate(e, new_vote)
         IN  IF ~UpdateVoteOk(e1, new_vote) THEN Panic(e1, "elect: update_vote rejected")
             ELSE UpdateServerStateIfChanged(
                     UpdateVote(Push(e1, CmdSendVote(new_vote, e1.candidate.last_log_id)),
                                new_vote, now, FALSE))

ElectFromVoteTerm(e, now) ==
    IF ~VoteLE(e.vote, e.last_seen_vote) THEN Panic(e, "elect: expect last_seen_vote >= state.vote")
    ELSE LET new_vote == Vote(e.vote.term + 1, e.id, FALSE)
             e1 == NewCandidate(e, new_vote)
         IN  IF ~UpdateVoteOk(e1, new_vote) THEN Panic(e1, "elect: update_vote rejected")
             ELSE UpdateServerStateIfChanged(
                     Push(UpdateVote(e1, new_vote, now, FALSE),
                          CmdSendVote(new_vote, e1.candidate.last_log_id)))

ElectGrantsSelf(e, now) ==
    IF ~VoteLE(e.vote, e.last_seen_vote) THEN Panic(e, "elect: expect last_seen_vote >= state.vote")
    ELSE LET new_vote == Vote(e.last_seen_vote.term + 1, e.id, FALSE)
             e0 == NewCandidate(e, new_vote)
             e1 == [e0 EXCEPT !.candidate.granted = {e.id}]
         IN  IF ~UpdateVoteOk(e1, new_vote) THEN Panic(e1, "elect: update_vote rejected")
             ELSE UpdateServerStateIfChanged(
                     Push(UpdateVote(e1, new_vote, now, FALSE),
                          CmdSendVote(new_vote, e1.candidate.last_log_id)))

Elect(e, now) ==
    IF ~VoteLE(e.vote, e.last_seen_vote) THEN Panic(e, "elect: expect last_seen_vote >= state.vote")
    ELSE LET new_vote == Vote(e.last_seen_vote.term + 1, e.id, FALSE)
             e1 == NewCandidate(e, new_vote)
         IN  IF ~UpdateVoteOk(e1, new_vote) THEN Panic(e1, "elect: update_vote rejected")
             ELSE UpdateServerStateIfChanged(
                     Push(UpdateVote(e1, new_vote, now, FALSE),
                          CmdSendVote(new_vote, e1.candidate.last_log_id)))

\* Engine::check_initialize: Ok iff the state is not initialized.
CheckInitializeLogOnly(e) == LastLogId(e) = NoLogId

CheckInitializeOk(e) == ~IsInitialized(e)

\* Engine::check_initialize: the NotAllowed error.
NotAllowed(e) == [err |-> "NotAllowed", last_log_id |-> LastLogId(e), vote |-> e.vote]

\* Engine::check_members_contain_me
CheckMembersContainMeSkipped(e, m) == TRUE

CheckMembersContainMe(e, m) == IsVoter(m, e.id)

\* Engine::check_members_contain_me: the NotInMembers error.
NotInMembers(e, m) == [err |-> "NotInMembers", node_id |-> e.id, membership |-> m]

\* Engine::initialize: the result.
InitializeResult(e, m) ==
    IF ~CheckInitializeOk(e) THEN "NotAllowed"
    ELSE IF m = NoMembership THEN "panic"
    ELSE IF ~CheckMembersContainMe(e, m) THEN "NotInMembers"
    ELSE "Ok"

\* Engine::initialize: the error returned, if any.
InitializeError(e, m) ==
    IF ~CheckInitializeOk(e) THEN NotAllowed(e)
    ELSE IF m # NoMembership /\ ~CheckMembersContainMe(e, m) THEN NotInMembers(e, m)
    ELSE [err |-> "None"]

\* Engine::initialize: the engine afterwards.  m is the membership of the
\* entry, NoMembership when the entry is not a membership entry.
Initialize(e, m, now) ==
    IF ~CheckInitializeOk(e) THEN e
    ELSE IF m = NoMembership
         THEN Panic(e, "the only log entry for initializing has to be membership log")
    ELSE IF ~CheckMembersContainMe(e, m) THEN e
    ELSE IF ~FollowingHandlerAssert(e) THEN Panic(e, "following_handler: leader is some")
    ELSE LET e1 == DoAppendEntries(e, <<InEntry(LogId(0, 0), m)>>, 0)
         IN  IF e1.panic # "" THEN e1 ELSE Elect(e1, now)

VoteRequest(v, l) == [vote |-> v, last_log_id |-> l]

VoteResponse(e) == [vote |-> e.vote, last_log_id |-> LastLogId(e)]

\* Engine::handle_vote_req: the leader lease has not expired.
LeaseValid(e, now) ==
    e.vote.committed /\ e.vote_utime # NoTime /\ now <= e.vote_utime + LeaderLease

\* Engine::handle_vote_req: which of its returns is taken.
HandleVoteReqResult(e, req, now) ==
    IF LeaseValid(e, now) THEN "LeaseNotExpired"
    ELSE IF LogIdLT(req.last_log_id, LastLogId(e)) THEN "ByLastLogId"
    ELSE IF ~UpdateVoteOk(e, req.vote) THEN "ByVote"
    ELSE "Ok"

\* Engine::handle_vote_req: the engine afterwards (the response is
\* VoteResponse of it).
HandleVoteReqNoLogCheck(e, req, now, touch) ==
    IF LeaseValid(e, now) THEN e
    ELSE UpdateVote(e, req.vote, now, touch)

HandleVoteReqNoLease(e, req, now, touch) ==
    IF LogIdLT(req.last_log_id, LastLogId(e)) THEN e
    ELSE UpdateVote(e, req.vote, now, touch)

HandleVoteReqVotersOnly(e, req, now, touch) ==
    IF LeaseValid(e, now) THEN e
    ELSE IF LogIdLT(req.last_log_id, LastLogId(e)) THEN e
    ELSE IF ~IsVoter(e.membership_state.effective.membership, e.id) THEN e
    ELSE UpdateVote(e, req.vote, now, touch)

HandleVoteReqOverwritesVote(e, req, now, touch) ==
    IF LeaseValid(e, now) THEN e
    ELSE IF LogIdLT(req.last_log_id, LastLogId(e)) THEN e
    ELSE IF ~UpdateVoteOk(e, req.vote) THEN [e EXCEPT !.vote = req.vote]
    ELSE UpdateVote(e, req.vote, now, touch)

HandleVoteReq(e, req, now, touch) ==
    IF LeaseValid(e, now) THEN e
    ELSE IF LogIdLT(req.last_log_id, LastLogId(e)) THEN e
    ELSE UpdateVote(e, req.vote, now, touch)

\* EstablishHandler::establish: None when a Leader with a vote at least as
\* great exists; otherwise the Leader of the candidate's vote, committed.
EstablishOk(e, cand) == ~(e.leader.present /\ ~VoteLT(e.leader.vote, cand.vote))

\* Engine::establish_leader
EstablishLeader(e, now) ==
    LET cand == e.candidate
        e1   == [e EXCEPT !.candidate = NoCandidate]
    IN  IF ~EstablishOk(e1, cand) THEN e1
        ELSE LET vote == [cand.vote EXCEPT !.committed = TRUE]
                 e2 == Push([e1 EXCEPT !.leader = [NewLeader(e1) EXCEPT !.vote = vote]],
                            CmdRebuildReplicationStreams)
             IN  IF ~UpdateVoteOk(e2, vote) THEN Panic(e2, "commit vote can not fail")
                 ELSE LET e3 == UpdateVote(e2, vote, now, FALSE)
                      IN  IF ~LeaderHandlerOk(e3) THEN Panic(e3, "leader_handler: unwrap")
                          ELSE LeaderAppendBlank(e3)

HandleVoteRespFirstSetOnly(e, target, resp, now) ==
    LET e1 == UpdateLastSeen(e, resp.vote)
    IN  IF ~e1.candidate.present THEN e1
        ELSE IF resp.vote = e1.candidate.vote
        THEN LET e2 == [e1 EXCEPT !.candidate.granted = @ \cup {target}]
                 qs == e2.candidate.quorum_set
             IN  IF \A i \in 1..Len(qs) : i = 1 => IsQuorum(<<qs[i]>>, e2.candidate.granted)
                 THEN EstablishLeader(e2, now) ELSE e2
        ELSE IF LogIdLT(LastLogId(e1), resp.last_log_id)
             THEN [e1 EXCEPT !.seen_greater_log = TRUE] ELSE e1

HandleVoteRespRevertsOnGreater(e, target, resp, now) ==
    LET e1 == UpdateLastSeen(e, resp.vote)
    IN  IF ~e1.candidate.present THEN e1
        ELSE IF resp.vote = e1.candidate.vote
        THEN LET e2 == [e1 EXCEPT !.candidate.granted = @ \cup {target}]
             IN  IF IsQuorum(e2.candidate.quorum_set, e2.candidate.granted)
                 THEN EstablishLeader(e2, now) ELSE e2
        ELSE LET e3 == UpdateVote(e1, resp.vote, now, FALSE)
             IN  IF LogIdLT(LastLogId(e3), resp.last_log_id)
                 THEN [e3 EXCEPT !.seen_greater_log = TRUE] ELSE e3

HandleVoteRespNoCandidateRecordsLog(e, target, resp, now) ==
    LET e1 == UpdateLastSeen(e, resp.vote)
    IN  IF e1.candidate.present /\ resp.vote = e1.candidate.vote
        THEN LET e2 == [e1 EXCEPT !.candidate.granted = @ \cup {target}]
             IN  IF IsQuorum(e2.candidate.quorum_set, e2.candidate.granted)
                 THEN EstablishLeader(e2, now) ELSE e2
        ELSE IF LogIdLT(LastLogId(e1), resp.last_log_id)
             THEN [e1 EXCEPT !.seen_greater_log = TRUE] ELSE e1

\* Engine::handle_vote_resp
HandleVoteResp(e, target, resp, now) ==
    LET e1 == UpdateLastSeen(e, resp.vote)
    IN  IF ~e1.candidate.present THEN e1
        ELSE IF resp.vote = e1.candidate.vote
        THEN LET e2 == [e1 EXCEPT !.candidate.granted = @ \cup {target}]
             IN  IF IsQuorum(e2.candidate.quorum_set, e2.candidate.granted)
                 THEN EstablishLeader(e2, now) ELSE e2
        ELSE IF LogIdLT(LastLogId(e1), resp.last_log_id)
             THEN [e1 EXCEPT !.seen_greater_log = TRUE] ELSE e1

\* Engine::append_entries: the result.
AppendEntriesResult(e, vote, prev_log_id) ==
    IF ~UpdateVoteOk(e, vote) THEN "ByVote"
    ELSE IF ~EnsureLogConsecutive(e, prev_log_id) THEN "ByConflictingLogId"
    ELSE "Ok"

AppendEntriesIgnoreVoteReject(e, vote, prev_log_id, entries, now, touch) ==
    LET e1 == UpdateVote(e, vote, now, touch)
    IN  IF ~FollowingHandlerAssert(e1) THEN Panic(e1, "following_handler: leader is some")
        ELSE IF ~EnsureLogConsecutive(e1, prev_log_id) THEN e1
        ELSE FhAppendEntries(e1, entries)

AppendEntriesNoConsecutiveCheck(e, vote, prev_log_id, entries, now, touch) ==
    IF ~UpdateVoteOk(e, vote) THEN e
    ELSE LET e1 == UpdateVote(e, vote, now, touch)
         IN  IF ~FollowingHandlerAssert(e1) THEN Panic(e1, "following_handler: leader is some")
             ELSE FhAppendEntries(e1, entries)

AppendEntriesAppendsAll(e, vote, prev_log_id, entries, now, touch) ==
    IF ~UpdateVoteOk(e, vote) THEN e
    ELSE LET e1 == UpdateVote(e, vote, now, touch)
         IN  IF ~FollowingHandlerAssert(e1) THEN Panic(e1, "following_handler: leader is some")
             ELSE IF ~EnsureLogConsecutive(e1, prev_log_id) THEN e1
             ELSE DoAppendEntries(e1, entries, 0)

\* Engine::append_entries: the engine afterwards.
AppendEntriesVoteNotUpdated(e, vote, prev_log_id, entries, now, touch) ==
    IF ~UpdateVoteOk(e, vote) THEN e
    ELSE IF ~FollowingHandlerAssert(e) THEN Panic(e, "following_handler: leader is some")
    ELSE IF ~EnsureLogConsecutive(e, prev_log_id) THEN e
    ELSE FhAppendEntries(e, entries)

AppendEntries(e, vote, prev_log_id, entries, now, touch) ==
    IF ~UpdateVoteOk(e, vote) THEN e
    ELSE LET e1 == UpdateVote(e, vote, now, touch)
         IN  IF ~FollowingHandlerAssert(e1) THEN Panic(e1, "following_handler: leader is some")
             ELSE IF ~EnsureLogConsecutive(e1, prev_log_id) THEN e1
             ELSE FhAppendEntries(e1, entries)

\* Engine::handle_append_entries: append_entries, then the Respond command
\* when a reply channel is given.
HandleAppendEntries(e, vote, prev_log_id, entries, tx, now, touch) ==
    LET e1 == AppendEntries(e, vote, prev_log_id, entries, now, touch)
    IN  IF e1.panic # "" \/ ~tx THEN e1
        ELSE Push(e1, CmdRespond(NoLogId, AppendEntriesResult(e, vote, prev_log_id) = "Ok", e1.vote))

HandleInstallFullSnapshotUngated(e, vote, meta, now, touch) ==
    IF ~UpdateVoteOk(e, vote) THEN Push(e, CmdRespond(NoLogId, FALSE, e.vote))
    ELSE LET e1 == UpdateVote(e, vote, now, touch)
         IN  IF ~FollowingHandlerAssert(e1) THEN Panic(e1, "following_handler: leader is some")
             ELSE LET e2 == InstallFullSnapshot(e1, meta)
                  IN  Push(e2, CmdRespond(NoLogId, TRUE, e2.vote))

\* Engine::handle_install_full_snapshot
HandleInstallFullSnapshot(e, vote, meta, now, touch) ==
    IF ~UpdateVoteOk(e, vote) THEN Push(e, CmdRespond(NoLogId, FALSE, e.vote))
    ELSE LET e1 == UpdateVote(e, vote, now, touch)
         IN  IF ~FollowingHandlerAssert(e1) THEN Panic(e1, "following_handler: leader is some")
             ELSE LET e2 == InstallFullSnapshot(e1, meta)
                  IN  Push(e2, CmdRespond(InstallFullSnapshotCond(e1, meta), TRUE, e2.vote))

\* Engine::handle_commit_entries
HandleCommitEntries(e, leader_committed) ==
    IF ~FollowingHandlerAssert(e) THEN Panic(e, "following_handler: leader is some")
    ELSE CommitEntries(e, leader_committed)

\* Engine::handle_commit_entries in a build with or without debug assertions:
\* without them following_handler does not test for a LeaderState.
HandleCommitEntriesBuild(e, leader_committed, debug_assertions) ==
    IF debug_assertions /\ ~FollowingHandlerAssert(e)
    THEN Panic(e, "following_handler: leader is some")
    ELSE CommitEntries(e, leader_committed)

\* Engine::leader_step_down
LeaderStepDown(e) ==
    IF LogIdLE(e.membership_state.effective.log_id, e.committed)
    THEN UpdateInternalServerState(e)
    ELSE e

StartupNoLeaderRestore(e) ==
    IF IsLeader(e)
    THEN IF ~e.leader.present
         THEN Panic(e, "There is no leader, can not handle replication")
         ELSE Push([e EXCEPT !.leader.progress[e.id] = LastLogId(e)],
                   CmdReplicate(LastLogId(e)))
    ELSE [e EXCEPT !.server_state =
             IF IsVoter(e.membership_state.effective.membership, e.id)
             THEN "Follower" ELSE "Learner"]

\* Engine::startup
Startup(e) ==
    IF IsLeader(e)
    THEN LET e1 == UpdateInternalServerState(e)
         IN  IF ~e1.leader.present
             THEN Panic(e1, "There is no leader, can not handle replication")
             ELSE Push([e1 EXCEPT !.leader.progress[e.id] = LastLogId(e)],
                       CmdReplicate(LastLogId(e)))
    ELSE [e EXCEPT !.server_state =
             IF IsVoter(e.membership_state.effective.membership, e.id)
             THEN "Follower" ELSE "Learner"]

\* -------------------------------------------------------------- variables

VARIABLES
    eng,    \* the Engine of one node, driven by arbitrary events
    now,    \* the monotonic clock (InstantOf::now())
    pc,     \* "new" after Engine::new, "running" once startup has run
    last,   \* the last event of the engine: its arguments and its result
    mst,    \* a MembershipState driven on its own
    mlast,  \* the last MembershipState operation and its argument
    cl,     \* a cluster: the Engine of every node
    cnow,   \* the clock of the cluster
    clast   \* the last step of the cluster

evars == <<eng, now, pc, last>>

mvars == <<mst, mlast>>

cvars == <<cl, cnow, clast>>

vars == <<eng, now, pc, last, mst, mlast, cl, cnow, clast>>

\* A step of the cluster: the operation, the node it runs on, the peer.
CStep(op, n, peer) == [op |-> op, node |-> n, peer |-> peer]

\* The cluster while another specification runs.
ClusterOff ==
    /\ cl = [n \in Nodes |-> EngineNew(n, DefaultRaftState)]
    /\ cnow = 0
    /\ clast = CStep("off", 0, 0)

\* The last event: the handler and which of its returns it took.
NoEvent == [op |-> "new", res |-> ""]

Event(op, res) == [op |-> op, res |-> res]

\* ------------------------------------------ MembershipState on its own

MsLogIds == {NoLogId} \cup { LogId(t, i) : t \in 0..MaxTerm, i \in 0..MaxIndex }

MsMemberships == { <<{1, 2, 3}>>, <<{2, 3}>> }

MsEMs == { EM(l, m) : l \in MsLogIds, m \in MsMemberships }

MsOp(op, em, n) == [op |-> op, em |-> em, n |-> n]

MsNoArg == EM(NoLogId, NoMembership)

\* Any state that passes validate().
MsInit ==
    /\ mst \in { MembershipStateNew(c, e) : c \in MsEMs, e \in MsEMs }
    /\ MsValidLogId(mst) /\ MsValidIndex(mst)
    /\ mlast = MsOp("new", MsNoArg, 0)
    /\ eng = EngineNew(1, DefaultRaftState) /\ now = 0 /\ pc = "off"
    /\ last = Event("off", "")
    /\ ClusterOff

MsDoAppend ==
    \E m \in MsEMs :
        /\ MsAppendAssert(mst, m)
        /\ mst' = MsAppend(mst, m)
        /\ mlast' = MsOp("append", m, 0)

MsDoCommit ==
    \E l \in MsLogIds :
        /\ mst' = MsCommit(mst, l)
        /\ mlast' = MsOp("commit", EM(l, NoMembership), 0)

MsDoUpdateCommitted ==
    \E c \in MsEMs :
        /\ MsUpdateCommittedAssert(mst, c)
        /\ mst' = MsUpdateCommitted(mst, c)
        /\ mlast' = MsOp("update_committed", c, 0)

MsDoTruncate ==
    \E since \in 0..MaxIndex :
        /\ MsTruncateAssert(mst, since)
        /\ mst' = MsTruncate(mst, since)
        /\ mlast' = MsOp("truncate", MsTruncateReturn(mst, since), since)

MsNext ==
    /\ (MsDoAppend \/ MsDoCommit \/ MsDoUpdateCommitted \/ MsDoTruncate)
    /\ UNCHANGED evars
    /\ UNCHANGED cvars

SpecMembership == MsInit /\ [][MsNext]_vars

\* ------------------------------- MembershipState under membership changes

\* The changes an operator may ask for.
AllChanges ==
    { ChangeMembers(k, ids) : k \in {"AddVoterIds", "RemoveVoters", "ReplaceAllVoters"},
                              ids \in SUBSET Nodes }

\* The log ids of the entries a leader appends after the initial membership.
CmLogIds == { LogId(t, i) : t \in 1..MaxTerm, i \in 1..MaxCmIndex }

\* The initial membership of the cluster, every node a voter, is committed.
CmInit ==
    /\ mst = MembershipStateNew(EM(LogId(0, 0), <<Nodes>>), EM(LogId(0, 0), <<Nodes>>))
    /\ mlast = MsOp("new", MsNoArg, 0)
    /\ eng = EngineNew(1, DefaultRaftState) /\ now = 0 /\ pc = "off"
    /\ last = Event("off", "")
    /\ ClusterOff

\* A leader is asked to change the membership: it appends the entry of the
\* new membership when next_membership returns one.
CmDoChangeMembership ==
    \E changes \in AllChanges, l \in CmLogIds :
        LET res == NextMembership(mst, changes)
        IN  /\ MsAppendAssert(mst, EM(l, res.membership))
            /\ mst' = IF res.ok THEN MsAppend(mst, EM(l, res.membership)) ELSE mst
            /\ mlast' = MsOp(IF res.ok THEN "append" ELSE res.err,
                             EM(IF res.ok THEN l ELSE NoLogId, res.membership), 0)

CmDoCommit ==
    \E l \in CmLogIds :
        /\ mst' = MsCommit(mst, l)
        /\ mlast' = MsOp("commit", EM(l, NoMembership), 0)

\* A node that lost leadership has its uncommitted log truncated.
CmDoTruncate ==
    \E since \in 1..MaxCmIndex :
        /\ MsTruncateAssert(mst, since)
        /\ mst' = MsTruncate(mst, since)
        /\ mlast' = MsOp("truncate", MsNoArg, since)

CmNext ==
    /\ (CmDoChangeMembership \/ CmDoCommit \/ CmDoTruncate)
    /\ UNCHANGED evars
    /\ UNCHANGED cvars

SpecChangeMembership == CmInit /\ [][CmNext]_vars

\* C4: starting from a MembershipState with committed.log_id <=
\* effective.log_id, after any sequence of append, commit, update_committed
\* and truncate, committed.log_id <= effective.log_id still holds, in the
\* (term, index) order of log ids and in index alone.
C4_CommittedLeEffective == MsValidLogId(mst) /\ MsValidIndex(mst)

\* ------------------------------------------------- one Engine, any events

\* The node the engine runs on (config.id) and its peers.
Me == 1

Peers == Nodes \ {Me}

AnyPeer == CHOOSE n \in Peers : TRUE

\* The log ids a peer's log may hold: index 0 is the initial membership entry
\* of term 0, later entries are written by leaders of terms 1..MaxTerm.
AllLogIds == {NoLogId, LogId(0, 0)} \cup { LogId(t, i) : t \in 1..MaxTerm, i \in 1..MaxIndex }

\* The least and the greatest of them: enough to take every branch that
\* compares a peer's last log id with the local one.
EdgeLogIds == {NoLogId, LogId(MaxTerm, MaxIndex)}

\* Votes that requests of peers carry: a candidate's or a leader's own vote.
PeerVotes == { Vote(t, n, c) : t \in 1..MaxTerm, n \in Peers, c \in BOOLEAN }

\* Votes that a vote response may carry: the peer's current vote.
AllVotes == {ZeroVote} \cup { Vote(t, n, c) : t \in 1..MaxTerm, n \in Nodes, c \in BOOLEAN }

\* The membership the cluster was initialized with, and the memberships an
\* operator may pass to initialize.
ClusterMembership == <<{1, 2, 3}>>

InitMemberships == { <<{1, 2, 3}>>, <<{2, 3}>>, <<{1, 2, 3}, {1, 2}>> }

\* The entries an append-entries request may carry after prev_log_id: at most
\* two, consecutive, terms not decreasing; index 0 is a membership entry.
EntryAt(i, t, m) == InEntry(LogId(t, i), m)

EntriesAfter(prev) ==
    LET i == NextIndex(prev)
        One(j, lo) == IF j = 0 THEN { EntryAt(0, 0, ClusterMembership) }
                      ELSE { EntryAt(j, t, m) : t \in { x \in 1..MaxTerm : x >= lo },
                                                m \in {NoMembership} }
    IN  {<< >>}
        \cup (IF i <= MaxIndex THEN { <<a>> : a \in One(i, prev.term) } ELSE {})
        \cup (IF i + 1 <= MaxIndex /\ MaxEntries >= 2
              THEN UNION { { <<a, b>> : b \in One(i + 1, a.log_id.term) } : a \in One(i, prev.term) }
              ELSE {})

\* Whether a request comes with a reply channel (tx): the runtime passes one
\* with every request of a peer.
ReplyChannels == {TRUE}

\* The indexes an operator may ask to purge up to: one is past every log.
PurgeIndexes == 0..(MaxIndex + 1)

\* The snapshots a leader may send: of a log prefix a peer may hold, with
\* the cluster's initial membership as the last membership in it.
Snapshots ==
    { SnapshotMeta(l, EM(LogId(0, 0), ClusterMembership)) : l \in AllLogIds \ {NoLogId} }

\* Two log ids that committed logs of one cluster may end with: the same
\* index means the same term, a greater index never has a smaller term.
CommittedAlike(a, b) ==
    /\ a.index = b.index => a.term = b.term
    /\ a.index < b.index => a.term <= b.term
    /\ b.index < a.index => b.term <= a.term

\* A log id of a log that the local log agrees with: the local log id at its
\* index where that is known, no smaller term past the local log's end.
OfLocalLog(e, l) ==
    IF l = NoLogId THEN TRUE
    ELSE IF l.index > LastLogId(e).index THEN l.term >= LastLogId(e).term
    ELSE IF GetLogId(e, l.index) # NoLogId THEN l = GetLogId(e, l.index)
    ELSE CommittedAlike(l, e.purged)

Drained(e) == [e EXCEPT !.output = << >>]

\* The engine takes events while the process has not aborted.
Running == pc = "running" /\ eng.panic = ""

\* An equal vote may or may not refresh vote_last_modified.
Touches(v) == IF v = eng.vote THEN BOOLEAN ELSE {FALSE}

\* The state a node is constructed from: a fresh one, or the state of a node
\* that granted a vote to a peer and restarted before it received any log.
InitStates == {DefaultRaftState, [DefaultRaftState EXCEPT !.vote = Vote(1, AnyPeer, FALSE)]}

Init ==
    /\ \E init_state \in InitStates : eng = EngineNew(Me, init_state)
    /\ now = 0
    /\ pc = "new"
    /\ last = NoEvent
    /\ mst = MembershipStateNew(EM(NoLogId, NoMembership), EM(NoLogId, NoMembership))
    /\ mlast = MsOp("off", MsNoArg, 0)
    /\ ClusterOff

DoStartup ==
    /\ pc = "new"
    /\ eng' = Startup(eng)
    /\ pc' = "running"
    /\ last' = Event("startup", "")
    /\ UNCHANGED now

Tick ==
    /\ pc = "running"
    /\ now < MaxNow
    /\ now' = now + 1
    /\ UNCHANGED <<eng, pc, last>>

DoInitialize ==
    /\ Running
    /\ \E m \in InitMemberships \cup {NoMembership} :
        /\ eng' = Initialize(Drained(eng), m, now)
        /\ last' = Event("initialize", InitializeResult(eng, m))
    /\ UNCHANGED <<now, pc>>

\* The election timeout: it fires on a follower or on a candidate.
DoElect ==
    /\ Running
    /\ eng.server_state \in {"Follower", "Candidate"}
    /\ eng.last_seen_vote.term < MaxTerm
    /\ eng' = Elect(Drained(eng), now)
    /\ last' = Event("elect", "")
    /\ UNCHANGED <<now, pc>>

DoHandleVoteReq ==
    /\ Running
    /\ \E v \in PeerVotes, l \in EdgeLogIds \cup {LastLogId(eng)} :
        \E touch \in Touches(v) :
            /\ eng' = HandleVoteReq(Drained(eng), VoteRequest(v, l), now, touch)
            /\ last' = Event("handle_vote_req", HandleVoteReqResult(eng, VoteRequest(v, l), now))
    /\ UNCHANGED <<now, pc>>

\* A vote response answers a vote request this node has sent.
DoHandleVoteResp ==
    /\ Running
    /\ eng.vote # ZeroVote
    /\ LastLogId(eng).index < MaxIndex
    /\ \E target \in Nodes, v \in AllVotes, l \in EdgeLogIds :
        /\ v.node = Me => VoteLE(v, eng.last_seen_vote)
        \* the target matters only to a grant, the log id only to a rejection
        /\ (eng.candidate.present /\ v = eng.candidate.vote) => l = NoLogId
        /\ ~(eng.candidate.present /\ v = eng.candidate.vote) => target = AnyPeer
        /\ eng' = HandleVoteResp(Drained(eng), target, [vote |-> v, last_log_id |-> l], now)
        /\ last' = Event("handle_vote_resp", "")
    /\ UNCHANGED <<now, pc>>

DoHandleAppendEntries ==
    /\ Running
    /\ \E v \in { x \in PeerVotes : x.committed }, tx \in ReplyChannels :
        \E prev \in { l \in AllLogIds : l.term <= v.term } :
        \E entries \in EntriesAfter(prev), touch \in Touches(v) :
            /\ \A k \in 1..Len(entries) : entries[k].log_id.term <= v.term
            \* a leader's log holds the entries committed in the cluster
            /\ CommittedAlike(prev, eng.committed)
            /\ \A k \in 1..Len(entries) : CommittedAlike(entries[k].log_id, eng.committed)
            /\ eng' = HandleAppendEntries(Drained(eng), v, prev, entries, tx, now, touch)
            /\ last' = Event("handle_append_entries", AppendEntriesResult(eng, v, prev))
    /\ UNCHANGED <<now, pc>>

DoHandleInstallFullSnapshot ==
    /\ Running
    /\ \E v \in { x \in PeerVotes : x.committed }, meta \in Snapshots :
        \E touch \in Touches(v) :
            /\ meta.last_log_id.term <= v.term
            \* a snapshot holds committed entries, as the local committed log does
            /\ CommittedAlike(meta.last_log_id, eng.committed)
            \* the same log id implies the same membership
            /\ MsUpdateCommittedAssert(eng.membership_state, meta.last_membership)
            /\ eng.membership_state.effective.log_id = meta.last_membership.log_id
                => eng.membership_state.effective.membership = meta.last_membership.membership
            /\ eng' = HandleInstallFullSnapshot(Drained(eng), v, meta, now, touch)
            /\ last' = Event("handle_install_full_snapshot", "")
    /\ UNCHANGED <<now, pc>>

\* The runtime asks for a snapshot when entries were committed since the last
\* one.
DoTriggerSnapshot ==
    /\ Running
    /\ LogIdLT(eng.snapshot_meta.last_log_id, eng.committed)
    /\ eng' = TriggerSnapshot(Drained(eng))
    /\ last' = Event("trigger_snapshot", "")
    /\ UNCHANGED <<now, pc>>

\* The runtime has built the snapshot it was asked for: it holds committed
\* entries.
DoFinishBuildingSnapshot ==
    /\ Running
    /\ eng.building_snapshot
    /\ \E meta \in Snapshots :
        /\ LogIdLE(meta.last_log_id, eng.committed)
        /\ CommittedAlike(meta.last_log_id, eng.committed)
        \* the snapshot is built from the local log
        /\ OfLocalLog(eng, meta.last_log_id)
        /\ eng' = FinishBuildingSnapshot(Drained(eng), meta)
        /\ last' = Event("finish_building_snapshot",
                         IF UpdateSnapshotOk(eng, meta) THEN "Updated" ELSE "NotUpdated")
    /\ UNCHANGED <<now, pc>>

\* An operator asks to purge the log up to an index.
DoTriggerPurgeLog ==
    /\ Running
    /\ \E index \in PurgeIndexes :
        /\ eng' = TriggerPurgeLog(Drained(eng), index)
        /\ last' = Event("trigger_purge_log", "")
    /\ UNCHANGED <<now, pc>>

\* A client request asks for the leader handler.
DoGetLeaderHandlerOrReject ==
    /\ Running
    /\ \E tx \in BOOLEAN :
        LET r == GetLeaderHandlerOrReject(Drained(eng), tx)
        IN  /\ eng' = r.engine
            /\ last' = Event("get_leader_handler_or_reject",
                             IF r.handler THEN "Ok"
                             ELSE IF r.sent = << >> THEN "None"
                             ELSE IF r.sent[1] = ForwardToLeaderEmpty THEN "ForwardToLeader::empty"
                             ELSE "ForwardToLeader")
    /\ UNCHANGED <<now, pc>>

\* The leader's committed log id arrives with an append-entries request and
\* is handled once the request has been accepted.
DoHandleCommitEntries ==
    /\ Running
    /\ last = Event("handle_append_entries", "Ok")
    /\ \E l \in AllLogIds :
        \* the leader's committed log id is of the log it has just replicated
        /\ OfLocalLog(eng, l)
        /\ eng' = HandleCommitEntries(Drained(eng), l)
        /\ last' = Event("handle_commit_entries", "")
    /\ UNCHANGED <<now, pc>>

Next ==
    (\/ DoStartup \/ Tick \/ DoInitialize \/ DoElect \/ DoHandleVoteReq
     \/ DoHandleVoteResp \/ DoHandleAppendEntries \/ DoHandleCommitEntries
     \/ DoHandleInstallFullSnapshot \/ DoGetLeaderHandlerOrReject)
    /\ UNCHANGED mvars
    /\ UNCHANGED cvars

Spec == Init /\ [][Next]_vars

\* The engine of a node whose runtime builds snapshots, while the clock stands
\* still and no peer asks for its vote.
NextSnapshot ==
    (\/ DoStartup \/ DoInitialize \/ DoElect \/ DoHandleVoteResp
     \/ DoHandleAppendEntries \/ DoHandleCommitEntries
     \/ DoHandleInstallFullSnapshot \/ DoTriggerSnapshot \/ DoFinishBuildingSnapshot
     \/ DoTriggerPurgeLog)
    /\ UNCHANGED mvars
    /\ UNCHANGED cvars

SpecSnapshot == Init /\ [][NextSnapshot]_vars

\* ------------------------------------------- a leader changes the membership

\* A node that was the committed leader of term 1 and restarts with the
\* initial membership committed.
RestartedLeader ==
    [DefaultRaftState EXCEPT
        !.vote = Vote(1, Me, TRUE),
        !.log = <<Entry(0, ClusterMembership)>>,
        !.committed = LogId(0, 0),
        !.membership_state = MembershipStateNew(EM(LogId(0, 0), ClusterMembership),
                                                EM(LogId(0, 0), ClusterMembership))]

\* The states a node of an initialized cluster may restart from: its vote is
\* its own, committed or not, or a leader's, and the committed membership has
\* it as a voter or not.
RestartedStates ==
    { [RestartedLeader EXCEPT
          !.vote = v,
          !.log = <<Entry(0, m)>>,
          !.membership_state = MembershipStateNew(EM(LogId(0, 0), m), EM(LogId(0, 0), m))] :
      v \in {Vote(1, Me, TRUE), Vote(1, Me, FALSE), Vote(1, AnyPeer, TRUE)},
      m \in {ClusterMembership, <<Peers>>} }

InitLeader ==
    /\ \E init_state \in RestartedStates : eng = EngineNew(Me, init_state)
    /\ now = 0
    /\ pc = "new"
    /\ last = NoEvent
    /\ mst = MembershipStateNew(EM(NoLogId, NoMembership), EM(NoLogId, NoMembership))
    /\ mlast = MsOp("off", MsNoArg, 0)
    /\ ClusterOff

\* An operator changes the membership: the leader appends the entry of the
\* membership next_membership returns.
DoChangeMembership ==
    /\ Running
    /\ LeaderHandlerOk(eng)
    /\ LastLogId(eng).index < MaxCmIndex
    /\ \E changes \in AllChanges :
        LET res == NextMembership(eng.membership_state, changes)
        IN  /\ eng' = IF res.ok THEN LeaderAppendMembership(Drained(eng), res.membership)
                      ELSE Drained(eng)
            /\ last' = Event("change_membership", IF res.ok THEN "Ok" ELSE res.err)
    /\ UNCHANGED <<now, pc>>

\* A peer reports the log id it has replicated.
DoUpdateMatching ==
    /\ Running
    /\ eng.leader.present
    /\ \E target \in Peers, i \in 0..MaxCmIndex :
        /\ GetLogId(eng, i) # NoLogId
        /\ eng' = UpdateMatching(Drained(eng), target, GetLogId(eng, i))
        /\ last' = Event("update_matching", "")
    /\ UNCHANGED <<now, pc>>

DoLeaderStepDown ==
    /\ Running
    /\ eng.leader.present
    /\ eng' = LeaderStepDown(Drained(eng))
    /\ last' = Event("leader_step_down", "")
    /\ UNCHANGED <<now, pc>>

\* A committed log id is handed to handle_commit_entries, in either build.
DoHandleCommitEntriesBuild ==
    /\ Running
    /\ \E i \in 0..MaxCmIndex, debug_assertions \in BOOLEAN :
        /\ GetLogId(eng, i) # NoLogId
        /\ eng' = HandleCommitEntriesBuild(Drained(eng), GetLogId(eng, i), debug_assertions)
        /\ last' = Event("handle_commit_entries", "")
    /\ UNCHANGED <<now, pc>>

NextLeader ==
    (\/ DoStartup \/ DoChangeMembership \/ DoUpdateMatching \/ DoLeaderStepDown
     \/ DoHandleCommitEntriesBuild)
    /\ UNCHANGED mvars
    /\ UNCHANGED cvars

SpecLeader == InitLeader /\ [][NextLeader]_vars

\* ------------------------------------------------------------ a cluster

\* The nodes an operator initializes and whose election timeout fires; the
\* remaining node only answers.
Starters == {1, 2}

\* The log ids of a node's log, and the entries that follow a log id in it.
LogIdsOf(e) == { GetLogId(e, i) : i \in 0..MaxIndex } \ {NoLogId}

EntriesOf(e, prev, k) ==
    [ j \in 1..k |-> InEntry(GetLogId(e, NextIndex(prev) + j - 1),
                             e.log[NextIndex(prev) + j - FirstIndex(e)].m) ]

\* The runtime executes the commands of an event before the next one.
Ran(e) == Drained(e)

InitCluster ==
    /\ cl = [n \in Nodes |-> Ran(Startup(EngineNew(n, DefaultRaftState)))]
    /\ cnow = 0
    /\ clast = CStep("startup", 0, 0)
    /\ eng = EngineNew(1, DefaultRaftState) /\ now = 0 /\ pc = "off"
    /\ last = Event("off", "")
    /\ mst = MembershipStateNew(EM(NoLogId, NoMembership), EM(NoLogId, NoMembership))
    /\ mlast = MsOp("off", MsNoArg, 0)

CTick ==
    /\ cnow < MaxNow
    /\ cnow' = cnow + 1
    /\ clast' = CStep("tick", 0, 0)
    /\ UNCHANGED cl

\* An operator initializes a node with the cluster's membership.
CInitialize ==
    \E n \in Starters :
        /\ cl[n].panic = ""
        /\ InitializeResult(cl[n], ClusterMembership) = "Ok"
        /\ cl' = [cl EXCEPT ![n] = Ran(Initialize(cl[n], ClusterMembership, cnow))]
        /\ clast' = CStep("initialize", n, 0)
        /\ UNCHANGED cnow

\* The election timeout of a follower or a candidate fires.
CElect ==
    \E n \in Starters :
        /\ cl[n].panic = ""
        /\ cl[n].server_state \in {"Follower", "Candidate"}
        /\ cl[n].last_seen_vote.term < MaxTerm
        /\ cl' = [cl EXCEPT ![n] = Ran(Elect(cl[n], cnow))]
        /\ clast' = CStep("elect", n, 0)
        /\ UNCHANGED cnow

\* The SendVote command of a candidate c reaches node t (c itself included):
\* t handles the request, c handles the response.
CVote ==
    \E c \in Nodes, t \in Nodes :
        /\ cl[c].panic = "" /\ cl[t].panic = ""
        /\ cl[c].candidate.present
        /\ LastLogId(cl[c]).index < MaxIndex
        /\ LET req  == VoteRequest(cl[c].candidate.vote, cl[c].candidate.last_log_id)
               t2   == Ran(HandleVoteReq(cl[t], req, cnow, FALSE))
               resp == VoteResponse(t2)
               c1   == IF c = t THEN t2 ELSE cl[c]
               c2   == Ran(HandleVoteResp(c1, t, resp, cnow))
           IN  cl' = [cl EXCEPT ![t] = t2, ![c] = c2]
        /\ clast' = CStep("vote", c, t)
        /\ UNCHANGED cnow

\* A leader l sends node f an append-entries request: the entries after some
\* log id of its log (none for a heartbeat) and its committed log id.  f
\* handles the request, then the committed log id; l handles the reply.
CAppend ==
    \E l \in Nodes, f \in Nodes :
        /\ f # l
        /\ cl[l].panic = "" /\ cl[f].panic = ""
        /\ IsLeader(cl[l]) /\ cl[l].leader.present
        /\ \E prev \in LogIdsOf(cl[l]) \cup {NoLogId} :
           \E k \in 0..MaxEntries :
            /\ prev.index + k <= LastLogId(cl[l]).index
            /\ LET entries == EntriesOf(cl[l], prev, k)
                   ok == AppendEntriesResult(cl[f], cl[l].vote, prev) = "Ok"
                   f1 == Ran(HandleAppendEntries(cl[f], cl[l].vote, prev, entries, TRUE, cnow, FALSE))
                   f2 == IF ok THEN Ran(HandleCommitEntries(f1, cl[l].committed)) ELSE f1
                   upto == IF k = 0 THEN prev ELSE entries[k].log_id
                   l2 == IF ok THEN Ran(UpdateMatching(cl[l], f, upto)) ELSE cl[l]
               IN  cl' = [cl EXCEPT ![f] = f2, ![l] = l2]
        /\ clast' = CStep("append", l, f)
        /\ UNCHANGED cnow

NextCluster ==
    /\ (CTick \/ CInitialize \/ CElect \/ CVote \/ CAppend)
    /\ UNCHANGED evars
    /\ UNCHANGED mvars

SpecCluster == InitCluster /\ [][NextCluster]_vars

\* C1: election safety: across the cluster there is at most one committed
\* vote per term, that is, no two nodes hold committed votes of the same term
\* for different nodes.
C1_ElectionSafety ==
    \A n1 \in Nodes, n2 \in Nodes :
        (cl[n1].vote.committed /\ cl[n2].vote.committed
            /\ cl[n1].vote.term = cl[n2].vote.term)
        => cl[n1].vote.node = cl[n2].vote.node

AnyVoteRequests == { VoteRequest(v, l) : v \in AllVotes, l \in AllLogIds }

C5_LeaseRejectsVoteReq ==
    (Running /\ LeaseValid(eng, now)) =>
        \A req \in AnyVoteRequests, touch \in BOOLEAN :
            LET e2 == HandleVoteReq(Drained(eng), req, now, touch)
            IN  /\ e2 = Drained(eng)
                /\ VoteResponse(e2) = [vote |-> eng.vote, last_log_id |-> LastLogId(eng)]

C5_Witness ==
    /\ last = Event("handle_vote_req", "LeaseNotExpired")
    /\ eng.output = << >>
    /\ eng.vote.committed

\* Whether a vote request gets past the lease check and the log check.
PassesLeaseAndLog(e, req, t) ==
    ~LeaseValid(e, t) /\ ~LogIdLT(req.last_log_id, LastLogId(e))

\* Whether handling a vote request makes state.vote become the request's vote.
Granted(e, e2, req) == e2.vote = req.vote /\ e.vote # req.vote

\* C6, as the design states it: past the lease check and the log check the
\* vote is granted iff req.vote > state.vote and this node is a voter.
C6_GrantIffGreaterAndVoter ==
    Running =>
        \A req \in AnyVoteRequests, touch \in BOOLEAN :
            PassesLeaseAndLog(eng, req, now) =>
                LET e2 == HandleVoteReq(Drained(eng), req, now, touch)
                IN  Granted(eng, e2, req)
                        <=> (VoteLT(eng.vote, req.vote)
                             /\ IsVoter(eng.membership_state.effective.membership, eng.id))

\* C6, amended: past the lease check and the log check the vote is granted
\* iff req.vote > state.vote, on voters and on non-voters alike; when it is
\* not granted the vote stays as it is.
C6_GrantIffGreater ==
    Running =>
        \A req \in AnyVoteRequests, touch \in BOOLEAN :
            PassesLeaseAndLog(eng, req, now) =>
                LET e2 == HandleVoteReq(Drained(eng), req, now, touch)
                IN  /\ Granted(eng, e2, req) <=> VoteLT(eng.vote, req.vote)
                    /\ ~Granted(eng, e2, req) => e2.vote = eng.vote

\* A node without a membership has just granted a peer's vote.
C6_Witness ==
    /\ last = Event("handle_vote_req", "Ok")
    /\ ~IsVoter(eng.membership_state.effective.membership, eng.id)
    /\ eng.vote.node \in Peers
    /\ eng.output = <<CmdSaveVote(eng.vote)>>

\* C7: a vote request whose last_log_id is less than the local last log id
\* never changes the vote, however great its vote is, and is answered with
\* the unchanged vote and the local last log id.
C7_StaleLogNeverGranted ==
    Running =>
        \A req \in AnyVoteRequests, touch \in BOOLEAN :
            LogIdLT(req.last_log_id, LastLogId(eng)) =>
                LET e2 == HandleVoteReq(Drained(eng), req, now, touch)
                IN  /\ e2.vote = eng.vote
                    /\ VoteResponse(e2) = [vote |-> eng.vote, last_log_id |-> LastLogId(eng)]

\* A candidate of term 1 on node 1, whose vote is less than every vote a peer
\* requests, has just rejected a request by its log.
C7_Witness ==
    /\ last = Event("handle_vote_req", "ByLastLogId")
    /\ eng.vote = Vote(1, Me, FALSE)
    /\ \A v \in PeerVotes : VoteLT(eng.vote, v)

\* C8: initialize succeeds only when the log is empty and the vote is the zero
\* vote; otherwise it returns NotAllowed with the last log id and the vote,
\* and changes nothing.
C8_InitializeOnlyOnEmpty ==
    Running =>
        \A m \in Memberships :
            LET e2 == Initialize(Drained(eng), m, now)
            IN  /\ InitializeResult(eng, m) = "Ok"
                    => (LastLogId(eng) = NoLogId /\ eng.vote = ZeroVote)
                /\ ~(LastLogId(eng) = NoLogId /\ eng.vote = ZeroVote)
                    => /\ InitializeResult(eng, m) = "NotAllowed"
                       /\ InitializeError(eng, m)
                            = [err |-> "NotAllowed", last_log_id |-> LastLogId(eng), vote |-> eng.vote]
                       /\ e2 = Drained(eng)

\* initialize was refused on a node that holds no log but has granted a vote.
C8_Witness ==
    /\ last = Event("initialize", "NotAllowed")
    /\ LastLogId(eng) = NoLogId
    /\ eng.vote # ZeroVote
    /\ eng.output = << >>

\* C9: initialize on an uninitialized node with a membership in which this
\* node is not a voter returns NotInMembers and changes nothing: no log is
\* appended, no election started, no command emitted.
C9_InitializeNotInMembers ==
    (Running /\ ~IsInitialized(eng)) =>
        \A m \in Memberships :
            ~IsVoter(m, eng.id) =>
                /\ InitializeResult(eng, m) = "NotInMembers"
                /\ InitializeError(eng, m).err = "NotInMembers"
                /\ Initialize(Drained(eng), m, now) = Drained(eng)

C9_Witness ==
    /\ last = Event("initialize", "NotInMembers")
    /\ eng.log = << >>
    /\ eng.vote = ZeroVote
    /\ ~eng.candidate.present
    /\ eng.output = << >>

\* The commands of a successful initialize on node id.
InitializeCommands(id) ==
    << CmdAppendLog(LogId(0, 0), LogId(0, 0)),
       CmdSaveVote(Vote(1, id, FALSE)),
       CmdSendVote(Vote(1, id, FALSE), LogId(0, 0)),
       CmdServerStateUpdate("Candidate") >>

\* C10: a successful initialize emits AppendLog of (0,0), SaveVote of the
\* uncommitted vote of term 1 for this node, SendVote with that vote and last
\* log id (0,0), and ServerStateUpdate(Candidate), in this order.
C10_InitializeCommandOrder ==
    Running =>
        \A m \in Memberships :
            InitializeResult(eng, m) = "Ok"
                => Initialize(Drained(eng), m, now).output = InitializeCommands(eng.id)

C10_Witness ==
    /\ last = Event("initialize", "Ok")
    /\ eng.output = InitializeCommands(Me)

\* The commands of a queue that are of one kind.
CommandsOf(out, kind) == { k \in 1..Len(out) : out[k].cmd = kind }

\* C11: after elect, state.vote and the candidate's vote are both
\* (last_seen_vote.term + 1, this node, uncommitted), a vote greater than the
\* vote and the last seen vote of before; the one SendVote command carries
\* that vote and the last log id.
C11_ElectBumpsLastSeenTerm ==
    Running =>
        LET e2 == Elect(Drained(eng), now)
            nv == Vote(eng.last_seen_vote.term + 1, eng.id, FALSE)
        IN  /\ e2.panic = ""
            /\ e2.vote = nv
            /\ e2.candidate.present /\ e2.candidate.vote = nv
            /\ VoteLT(eng.vote, nv) /\ VoteLT(eng.last_seen_vote, nv)
            /\ \E k \in 1..Len(e2.output) :
                    /\ CommandsOf(e2.output, "SendVote") = {k}
                    /\ e2.output[k] = CmdSendVote(nv, LastLogId(eng))

\* A second election on a node that holds a log: the SendVote command of
\* term 2 is in the queue.
C11_Witness ==
    /\ last.op = "elect"
    /\ eng.vote.term = 2 /\ eng.candidate.present /\ eng.candidate.vote = eng.vote
    /\ LastLogId(eng) # NoLogId
    /\ \E k \in 1..Len(eng.output) : eng.output[k] = CmdSendVote(eng.vote, LastLogId(eng))

\* C12, as the design states it: when elect returns, the candidate's grant
\* record holds this node's own grant.
C12_ElectSelfGrantRecorded ==
    Running =>
        LET e2 == Elect(Drained(eng), now)
        IN  e2.candidate.present /\ eng.id \in e2.candidate.granted

\* C12, amended: elect grants its own vote in state.vote, and the candidate's
\* grant record is empty when elect returns; this node's grant is recorded
\* when its own vote response is handled, and a quorum of it alone then
\* ends the candidacy.
C12_ElectOwnGrantByResponse ==
    Running =>
        LET e2 == Elect(Drained(eng), now)
            e3 == HandleVoteResp(Drained(e2), eng.id,
                                 [vote |-> e2.candidate.vote, last_log_id |-> NoLogId], now)
        IN  /\ e2.vote = e2.candidate.vote /\ e2.vote.node = eng.id
            /\ e2.candidate.granted = {}
            /\ IF IsQuorum(e2.candidate.quorum_set, {eng.id})
               THEN ~e3.candidate.present
               ELSE e3.candidate.present /\ e3.candidate.granted = {eng.id}

\* A voter has just become a candidate and nobody is recorded as granting.
C12_Witness ==
    /\ last.op = "elect"
    /\ eng.candidate.present /\ eng.candidate.granted = {}
    /\ eng.vote = eng.candidate.vote
    /\ IsVoter(eng.membership_state.effective.membership, eng.id)

\* The vote responses a check ranges over: any vote with an edge log id.
AnyVoteResponses == { [vote |-> v, last_log_id |-> l] : v \in AllVotes, l \in EdgeLogIds }

\* C13: handle_vote_resp creates the LeaderState, with the candidate's vote
\* committed, exactly when the response carries the candidate's vote and the
\* grants recorded so far plus this one are a quorum of every voter set of the
\* effective membership; a response with another vote records no grant and
\* changes neither vote nor leader; a LeaderState's vote is always committed.
C13_LeaderOnlyByQuorumOfGrants ==
    Running =>
        /\ eng.leader.present => eng.leader.vote.committed /\ eng.leader.vote.node = eng.id
        /\ \A target \in Nodes, resp \in AnyVoteResponses :
            LET e2     == HandleVoteResp(Drained(eng), target, resp, now)
                grant  == eng.candidate.present /\ resp.vote = eng.candidate.vote
                quorum == grant /\ IsQuorum(eng.membership_state.effective.membership,
                                            eng.candidate.granted \cup {target})
            IN  /\ ~grant => /\ e2.candidate = eng.candidate
                             /\ e2.leader = eng.leader
                             /\ e2.vote = eng.vote
                /\ (grant /\ ~quorum) => /\ e2.candidate.present
                                         /\ e2.candidate.granted = eng.candidate.granted \cup {target}
                                         /\ e2.leader = eng.leader
                                         /\ e2.vote = eng.vote
                /\ quorum => /\ ~e2.candidate.present
                             /\ e2.leader.present
                             /\ e2.leader.vote = [eng.candidate.vote EXCEPT !.committed = TRUE]
                             /\ e2.vote = e2.leader.vote

\* Under a joint membership a candidate has just become leader.
C13_Witness ==
    /\ last.op = "handle_vote_resp"
    /\ Len(eng.membership_state.effective.membership) = 2
    /\ eng.leader.present /\ eng.leader.vote = eng.vote /\ eng.vote.committed
    /\ ~eng.candidate.present

\* C14: when a vote response completes the quorum, the candidate is consumed,
\* a LeaderState is installed, and the queue holds, in this order, SaveVote of
\* the committed vote, AppendLog of one blank entry at (the vote's term, last
\* index + 1), and ServerStateUpdate(Leader).
C14_EstablishLeaderCommandOrder ==
    (Running /\ eng.candidate.present) =>
        \A target \in Nodes :
            LET resp == [vote |-> eng.candidate.vote, last_log_id |-> NoLogId]
                e2   == HandleVoteResp(Drained(eng), target, resp, now)
                v    == [eng.candidate.vote EXCEPT !.committed = TRUE]
                l    == LogId(v.term, NextIndex(LastLogId(eng)))
            IN  IsQuorum(eng.candidate.quorum_set, eng.candidate.granted \cup {target}) =>
                    /\ ~e2.candidate.present
                    /\ e2.leader.present
                    /\ CommandsOf(e2.output, "AppendLog") # {}
                    /\ \E i \in CommandsOf(e2.output, "SaveVote"),
                          k \in CommandsOf(e2.output, "ServerStateUpdate") :
                        \A j \in CommandsOf(e2.output, "AppendLog") :
                            /\ i < j /\ j < k
                            /\ e2.output[i] = CmdSaveVote(v)
                            /\ e2.output[j] = CmdAppendLog(l, l)
                            /\ e2.output[k] = CmdServerStateUpdate("Leader")

\* C15: handle_append_entries with a vote less than state.vote returns false
\* and changes nothing; with a reply channel its only command is the Respond
\* that carries the rejection and the unchanged vote, without one it emits no
\* command.
C15_AppendRejectedByVote ==
    Running =>
        \A v \in AllVotes, prev \in AllLogIds, touch \in BOOLEAN :
            VoteLT(v, eng.vote) =>
                \A entries \in EntriesAfter(prev) :
                    /\ AppendEntriesResult(eng, v, prev) = "ByVote"
                    /\ HandleAppendEntries(Drained(eng), v, prev, entries, TRUE, now, touch)
                            = Push(Drained(eng), CmdRespond(NoLogId, FALSE, eng.vote))
                    /\ HandleAppendEntries(Drained(eng), v, prev, entries, FALSE, now, touch)
                            = Drained(eng)

\* A node that holds a log has just rejected an append by its vote.
C15_Witness ==
    /\ last = Event("handle_append_entries", "ByVote")
    /\ eng.output = <<CmdRespond(NoLogId, FALSE, eng.vote)>>
    /\ eng.log # << >>

\* The follower has no entry at the index of l, or one of another term.
NotHeld(e, l) == l # NoLogId /\ GetLogId(e, l.index) # l

\* An append is rejected for its prev_log_id and the log is left alone.
RejectedByPrevLogId(e, v, prev, entries, touch) ==
    LET e2 == HandleAppendEntries(Drained(e), v, prev, entries, TRUE, now, touch)
    IN  /\ AppendEntriesResult(e, v, prev) = "ByConflictingLogId"
        /\ e2.log = e.log /\ e2.purged = e.purged
        /\ e2.membership_state = e.membership_state
        /\ CommandsOf(e2.output, "TruncateLog") = {} /\ CommandsOf(e2.output, "AppendLog") = {}
        /\ e2.output[Len(e2.output)] = CmdRespond(NoLogId, FALSE, e2.vote)

C17_AppendRespondGatedOnFlush ==
    Running =>
        \A v \in PeerVotes, prev \in AllLogIds, touch \in BOOLEAN :
            \A entries \in EntriesAfter(prev) \ {<< >>} :
                LET e2 == HandleAppendEntries(Drained(eng), v, prev, entries, TRUE, now, touch)
                IN  (AppendEntriesResult(eng, v, prev) = "Ok" /\ e2.panic = ""
                     /\ CommandsOf(e2.output, "AppendLog") # {}) =>
                        e2.output[Len(e2.output)]
                            = CmdRespond(entries[Len(entries)].log_id, TRUE, e2.vote)

\* C18: handle_append_entries called again with the same vote, prev_log_id
\* and entries right after a first call leaves the log, the membership state,
\* the vote and the committed log id as the first call left them, and gives
\* the same reply.
C18_AppendReplayIdempotent ==
    Running =>
        \A v \in PeerVotes, prev \in AllLogIds, touch \in BOOLEAN :
            \A entries \in EntriesAfter(prev) :
                LET e1 == HandleAppendEntries(Drained(eng), v, prev, entries, TRUE, now, touch)
                    e2 == HandleAppendEntries(Drained(e1), v, prev, entries, TRUE, now, touch)
                IN  e1.panic = "" =>
                        /\ e2.panic = ""
                        /\ e2.log = e1.log /\ e2.purged = e1.purged
                        /\ e2.membership_state = e1.membership_state
                        /\ e2.vote = e1.vote /\ e2.committed = e1.committed
                        /\ AppendEntriesResult(e1, v, prev) = AppendEntriesResult(eng, v, prev)
                        /\ e2.output[Len(e2.output)] = e1.output[Len(e1.output)]
                        /\ CommandsOf(e2.output, "AppendLog") = {}
                        /\ CommandsOf(e2.output, "TruncateLog") = {}

\* An accepted append has just found all of its entries in the log: the
\* state is the one a replay of that request leaves.
C18_Witness ==
    /\ last = Event("handle_append_entries", "Ok")
    /\ Len(eng.log) >= 2
    /\ \E prev \in AllLogIds :
        \E entries \in EntriesAfter(prev) \ {<< >>} :
            /\ eng.output = <<CmdRespond(NoLogId, TRUE, eng.vote)>>
            /\ HandleAppendEntries(Drained(eng), eng.vote, prev, entries, TRUE, now, FALSE) = eng

\* The snapshot is installed and the reply waits for it: one
\* InstallFullSnapshot command, then, last, the Respond command whose
\* wait-condition is the snapshot's last log id.
InstalledThenResponded(e2, meta) ==
    /\ e2.snapshot_meta = meta
    /\ \E i \in 1..Len(e2.output) :
        /\ CommandsOf(e2.output, "InstallFullSnapshot") = {i}
        /\ e2.output[i] = CmdInstallFullSnapshot(meta.last_log_id)
        /\ i < Len(e2.output)
    /\ CommandsOf(e2.output, "Respond") = {Len(e2.output)}
    /\ e2.output[Len(e2.output)] = CmdRespond(meta.last_log_id, TRUE, e2.vote)

\* The vote of a snapshot request is rejected: the reply carries the current
\* vote and nothing else happens.
SnapshotRejectedByVote(e, e2) ==
    e2 = Push(Drained(e), CmdRespond(NoLogId, FALSE, e.vote))

NonMonotonicMetas ==
    { meta \in Snapshots : LogIdLE(meta.last_log_id, eng.snapshot_meta.last_log_id) }

\* C20, as the design states it: finish_building_snapshot with a meta that is
\* not newer than the current snapshot changes no part of the engine state
\* and emits no command.
C20_NonMonotonicFinishIsNoOp ==
    Running =>
        \A meta \in NonMonotonicMetas :
            FinishBuildingSnapshot(Drained(eng), meta) = Drained(eng)

\* C20, amended: finish_building_snapshot with a meta that is not newer than
\* the current snapshot clears building_snapshot, changes nothing else and
\* emits no command.
C20_NonMonotonicFinishOnlyClearsFlag ==
    Running =>
        \A meta \in NonMonotonicMetas :
            FinishBuildingSnapshot(Drained(eng), meta)
                = [Drained(eng) EXCEPT !.building_snapshot = FALSE]

\* A build has ended with a snapshot older than the one installed meanwhile,
\* on a node that holds log entries the current snapshot covers.
C20_Witness ==
    /\ last = Event("finish_building_snapshot", "NotUpdated")
    /\ eng.snapshot_meta.last_log_id = LogId(1, 1)
    /\ ~eng.building_snapshot
    /\ eng.output = << >>

\* C21: trigger_purge_log(index) caps the index at the snapshot's last index;
\* with no snapshot, or with the capped index below purge_upto.next_index,
\* state and output are unchanged; otherwise purge_upto becomes the log id at
\* the capped index.
C21_TriggerPurgeLogCapsThenCompares ==
    Running =>
        \A index \in PurgeIndexes :
            LET e      == Drained(eng)
                e2     == TriggerPurgeLog(e, index)
                snap   == eng.snapshot_meta.last_log_id
                capped == IF index > snap.index THEN snap.index ELSE index
            IN  IF snap = NoLogId \/ capped < NextIndex(eng.purge_upto)
                THEN e2 = e
                ELSE e2.panic = "" /\ e2.purge_upto = GetLogId(eng, capped)

AppendOnlyOverCommitted ==
    (mlast'.op = "append" /\ mst' # mst) =>
        /\ mst.effective = mst.committed
        /\ mst'.committed = mst.committed

\* C23, as the design states it: next_membership returns InProgress whenever
\* effective.log_id differs from committed.log_id, and an append moves into
\* committed only a membership that is committed.
C23_InProgressWheneverUncommitted ==
    /\ [](mst.effective.log_id # mst.committed.log_id =>
            \A changes \in AllChanges : NextMembership(mst, changes).err = "InProgress")
    /\ [][AppendOnlyOverCommitted]_vars

\* C23, amended: while effective.log_id differs from committed.log_id
\* next_membership returns no membership: its error is InProgress unless the
\* change itself is refused first as EmptyMembership or LearnerNotFound; and
\* an append moves into committed only a membership that is committed.
C23_NoProposalWhileUncommitted ==
    /\ [](mst.effective.log_id # mst.committed.log_id =>
            \A changes \in AllChanges :
                LET res == NextMembership(mst, changes)
                IN  /\ ~res.ok
                    /\ res.err = "InProgress"
                        <=> NextMembershipNoInProgress(mst, changes).ok)
    /\ [][AppendOnlyOverCommitted]_vars

\* A change was refused as InProgress while a joint membership, the second
\* the leader appended, was not committed.
C23_Witness ==
    /\ mlast.op = "InProgress"
    /\ mst.effective.log_id # mst.committed.log_id
    /\ Len(mst.effective.membership) = 2
    /\ mst.committed.log_id # LogId(0, 0)

\* The three tests of forward_to_leader: a vote that is not committed, a
\* committed vote for a node the membership does not have, a committed vote
\* for a node the membership has although it is no voter.
ForwardToLeaderTests ==
    /\ ForwardToLeader(Vote(1, 2, FALSE), [n \in {1, 2} |-> 0]) = ForwardToLeaderEmpty
    /\ ForwardToLeader(Vote(1, 3, TRUE), [n \in {1, 2} |-> 0]) = ForwardToLeaderEmpty
    /\ ForwardToLeader(Vote(1, 3, TRUE), [n \in {1, 2, 3} |-> n + 3]) = ForwardToLeaderNew(3, 6)

LeaderVariants ==
    { eng, [eng EXCEPT !.leader = NoLeader],
      [eng EXCEPT !.leader = [NewLeader(eng) EXCEPT !.vote = Vote(eng.vote.term, Me, FALSE)]] }

\* C25: get_leader_handler_or_reject returns a handler if and only if there is
\* a leader and its vote is committed; else it sends the ForwardToLeader error
\* through tx once when there is a tx; it never changes the engine.
C25_LeaderHandlerIffCommittedLeader ==
    Running =>
        \A e \in LeaderVariants, tx \in BOOLEAN :
            LET r == GetLeaderHandlerOrReject(Drained(e), tx)
            IN  /\ r.handler <=> (e.leader.present /\ e.leader.vote.committed)
                /\ r.handler => r.sent = << >> /\ r.tx = tx
                /\ ~r.handler =>
                       r.sent = IF tx THEN <<ForwardToLeader(e.vote,
                                                NodeMap(e.membership_state.effective.membership))>>
                                ELSE << >>
                /\ r.engine = Drained(e)

\* A follower that knows the leader has refused a client request.
C25_Witness ==
    /\ last = Event("get_leader_handler_or_reject", "ForwardToLeader")
    /\ eng.server_state = "Follower"
    /\ ~eng.leader.present
    /\ eng.output = << >>

\* A candidate, and the votes of peers greater than the vote it stands for.
IsCandidate == Running /\ eng.server_state = "Candidate" /\ eng.candidate.present

GreaterPeerVotes == { v \in PeerVotes : VoteLT(eng.candidate.vote, v) }

\* The candidate state is dropped and the node is a follower.
RevertedToFollower(e2) == ~e2.candidate.present /\ e2.server_state = "Follower"

\* The node still stands for its vote.
StillCandidate(e2) ==
    /\ e2.candidate.present /\ e2.server_state = "Candidate"
    /\ e2.candidate.vote = eng.candidate.vote /\ e2.vote = eng.vote

\* An append-entries request with a greater vote makes a candidate a follower.
CandidateRevertsOnAppendEntries ==
    \A v \in { x \in GreaterPeerVotes : x.committed }, prev \in AllLogIds :
        \A entries \in EntriesAfter(prev) :
            RevertedToFollower(
                HandleAppendEntries(Drained(eng), v, prev, entries, TRUE, now, FALSE))

\* C26, as the design states it: a candidate that processes a vote request,
\* an append-entries request or a vote response with a vote greater than its
\* candidate vote drops its candidate state and becomes a follower.
C26_CandidateRevertsOnHigherVote ==
    IsCandidate =>
        /\ CandidateRevertsOnAppendEntries
        /\ \A v \in GreaterPeerVotes, l \in AllLogIds :
               /\ RevertedToFollower(HandleVoteReq(Drained(eng), VoteRequest(v, l), now, FALSE))
               /\ RevertedToFollower(
                      HandleVoteResp(Drained(eng), v.node, [vote |-> v, last_log_id |-> l], now))

\* C26, amended: a candidate becomes a follower when it accepts a greater
\* vote: with an append-entries request, and with a vote request whose
\* last_log_id is not behind its own.  A vote request with a smaller
\* last_log_id changes nothing, and a vote response with a greater vote
\* raises last_seen_vote only: the node stays a candidate.
C26_CandidateRevertsOnAcceptedVote ==
    IsCandidate =>
        /\ CandidateRevertsOnAppendEntries
        /\ \A v \in GreaterPeerVotes, l \in AllLogIds :
               LET req  == HandleVoteReq(Drained(eng), VoteRequest(v, l), now, FALSE)
                   resp == HandleVoteResp(Drained(eng), v.node,
                                          [vote |-> v, last_log_id |-> l], now)
               IN  /\ IF LogIdLT(l, LastLogId(eng)) THEN req = Drained(eng)
                      ELSE RevertedToFollower(req) /\ req.vote = v
                   /\ StillCandidate(resp)
                   /\ resp.last_seen_vote = VoteMax(eng.last_seen_vote, v)
                   /\ resp.output = << >>

\* A candidate has received a vote response with a vote greater than its own
\* and still stands for election.
C26_Witness ==
    /\ last.op = "handle_vote_resp"
    /\ IsCandidate
    /\ VoteLT(eng.candidate.vote, eng.last_seen_vote)
    /\ eng.vote = eng.candidate.vote

\* A leader whose effective membership, not committed yet, has no vote for it.
LeaderExcluded ==
    /\ Running /\ eng.leader.present /\ eng.server_state = "Leader"
    /\ ~IsVoter(eng.membership_state.effective.membership, Me)
    /\ LogIdLT(eng.committed, eng.membership_state.effective.log_id)

\* C27: when a leader whose effective membership excludes it processes
\* handle_commit_entries with a log id that covers the membership entry, the
\* engine emits ServerStateUpdate(Learner) and keeps the LeaderState.
C27_CommitOfExcludingMembership ==
    LeaderExcluded =>
        \A debug_assertions \in BOOLEAN :
            LET e2 == HandleCommitEntriesBuild(Drained(eng),
                          eng.membership_state.effective.log_id, debug_assertions)
            IN  /\ e2.panic = ""
                /\ e2.output # << >>
                /\ e2.output[Len(e2.output)] = CmdServerStateUpdate("Learner")
                /\ e2.leader = eng.leader

\* A request of a peer that carries a vote smaller than the node's leaves the
\* node's vote as it is, whichever handler receives it.
SmallerVoteNeverOverwrites ==
    Running =>
        \A v \in { x \in PeerVotes : VoteLT(x, eng.vote) } :
            /\ \A l \in EdgeLogIds \cup {LastLogId(eng)} :
                   HandleVoteReq(Drained(eng), VoteRequest(v, l), now, FALSE).vote = eng.vote
            /\ \A prev \in AllLogIds : \A entries \in EntriesAfter(prev) :
                   HandleAppendEntries(Drained(eng), v, prev, entries, TRUE, now, FALSE).vote
                       = eng.vote
            /\ \A meta \in Snapshots :
                   HandleInstallFullSnapshot(Drained(eng), v, meta, now, FALSE).vote = eng.vote

\* C28: across every event (elect, handle_vote_req, handle_vote_resp,
\* handle_append_entries, handle_install_full_snapshot, establish_leader)
\* state.vote never decreases in the order (term, committed, node), and an
\* event that carries a smaller vote never overwrites it.
C28_VoteNeverDecreases ==
    /\ [][VoteLE(eng.vote, eng'.vote)]_vars
    /\ []SmallerVoteNeverOverwrites

\* A vote request with a smaller vote was rejected by a node whose vote is of
\* the greatest term.
C28_Witness ==
    /\ Running
    /\ last = Event("handle_vote_req", "ByVote")
    /\ eng.vote.term = MaxTerm

\* C29: a vote response received when there is no CandidateState is ignored:
\* last_seen_vote becomes the greater of itself and the response's vote,
\* nothing else of the engine changes and no command is emitted.
C29_VoteRespWithoutCandidateIgnored ==
    (Running /\ ~eng.candidate.present) =>
        \A target \in Nodes, v \in AllVotes, l \in AllLogIds :
            HandleVoteResp(Drained(eng), target, [vote |-> v, last_log_id |-> l], now)
                = [Drained(eng) EXCEPT !.last_seen_vote = VoteMax(@, v)]

\* A follower without a CandidateState received a vote response with a vote
\* greater than its own.
C29_Witness ==
    /\ Running
    /\ last = Event("handle_vote_resp", "")
    /\ ~eng.candidate.present
    /\ eng.server_state = "Follower"
    /\ eng.output = << >>
    /\ VoteLT(eng.vote, eng.last_seen_vote)

\* C30: a vote response with the candidate's vote and a last log id greater
\* than the local one sets seen_greater_log and its grant is still counted; a
\* response with a different vote is not counted as a grant and sets
\* seen_greater_log iff its last log id is greater than the local one.
C30_GrantWithGreaterLogRecorded ==
    (Running /\ eng.candidate.present) =>
        \A target \in Peers, v \in AllVotes, l \in AllLogIds :
            LET e2 == HandleVoteResp(Drained(eng), target,
                                     [vote |-> v, last_log_id |-> l], now)
                greater == LogIdLT(LastLogId(eng), l)
            IN  IF v = eng.candidate.vote
                THEN greater =>
                        /\ e2.seen_greater_log
                        /\ \/ e2.candidate.present /\ target \in e2.candidate.granted
                           \/ e2.leader.present
                ELSE /\ e2.candidate = eng.candidate
                     /\ e2.seen_greater_log = (eng.seen_greater_log \/ greater)

\* C31: truncate(since) reverts effective to committed and returns the new
\* effective membership iff since <= effective.log_id.index; otherwise it
\* changes nothing and returns None.  It never changes committed, and with
\* since past the committed membership's index a committed membership is
\* never reverted.
C31_TruncateRevertsIffSinceCovered ==
    \A since \in 0..(MaxIndex + 1) :
        MsTruncateAssert(mst, since) =>
            LET s2  == MsTruncate(mst, since)
                ret == MsTruncateReturn(mst, since)
            IN  /\ s2.committed = mst.committed
                /\ IF mst.effective.log_id # NoLogId /\ since <= mst.effective.log_id.index
                   THEN s2.effective = mst.committed /\ ret = s2.effective
                   ELSE s2 = mst /\ ret = EM(NoLogId, NoMembership)
                /\ mst.effective = mst.committed => s2 = mst

\* A truncation has reverted an effective membership that was not committed.
C31_Witness ==
    /\ mlast.op = "truncate"
    /\ mlast.em # MsNoArg
    /\ mlast.em = mst.effective
    /\ mst.effective = mst.committed
    /\ mst.committed.log_id # NoLogId
    /\ mlast.n = mst.committed.log_id.index + 1

\* C32: startup of a node whose persisted vote is a committed vote for itself
\* ends with a LeaderState whose local progress is the local last log id and
\* with replication initiated; otherwise there is no LeaderState and no
\* CandidateState and server_state is Follower for a voter of the effective
\* membership and Learner for any other node.  startup never reaches the
\* replication handler without a LeaderState.
C32_StartupRestoresLeaderOrFollows ==
    pc = "new" =>
        LET e2 == Startup(eng)
        IN  /\ e2.panic = ""
            /\ IF eng.vote.node = Me /\ eng.vote.committed
               THEN /\ e2.leader.present
                    /\ e2.leader.progress[Me] = LastLogId(eng)
                    /\ CommandsOf(e2.output, "Replicate") # {}
               ELSE /\ ~e2.leader.present
                    /\ ~e2.candidate.present
                    /\ e2.server_state =
                          IF IsVoter(eng.membership_state.effective.membership, Me)
                          THEN "Follower" ELSE "Learner"

\* A node restarted with its own committed vote has its LeaderState back and
\* replication under way.
C32_Witness ==
    /\ last = Event("startup", "")
    /\ eng.panic = ""
    /\ eng.leader.present
    /\ eng.leader.progress[Me] = LogId(0, 0)
    /\ CommandsOf(eng.output, "Replicate") # {}

\* The assertion of following_handler has not failed.
FollowingHandlerHeld(e2) == e2.panic # "following_handler: leader is some"

====
